---- MODULE Spec2Model ----
(***************************************************************************)
(* A model of the "thoughts" workspace tooling of hlyr:                    *)
(*   - utils/hooks.ts      the git hook generator and installer            *)
(*   - utils/symlink.ts    the cross-platform directory linker             *)
(*   - thoughts init       the state inspector (checkExistingSetup)        *)
(*   - thoughts init       thoughtsInitCommand, step by step               *)
(* Each subsystem has its own specification (SpecHooks, SpecSetup,         *)
(* SpecLink, SpecInit, ...) over the variables it owns; the other          *)
(* variables stay frozen.                                                  *)
(***************************************************************************)
EXTENDS Integers, Sequences, FiniteSets, TLC

VARIABLES
    platform,       \* process.platform of the running process
    hooks,          \* the files of <git-common-dir>/hooks: path -> file
    hookLast,       \* the last operation on the hooks directory and its result
    foundForeign,   \* history: the foreign hooks installGitHook found at a hook path
    thoughts,       \* what <cwd>/thoughts is on disk
    entries,        \* what thoughts/<name> is on disk, for each name
    backing,        \* the directories that exist in the backing repository
    setupLast,      \* the last checkExistingSetup call and its result
    linkLast,       \* the last createDirectoryLink call and its result
    configFile,     \* the persisted configuration document
    thoughtsRepo,   \* the backing repository of each profile: its directories
    run,            \* each thoughtsInitCommand process: its position and locals
    claudeMd,       \* thoughts/CLAUDE.md on disk: what its text names
    script,         \* the run of an installed hook script, started by git
    walk,           \* the run of removeReadOnly or makeFileExecutable
    linker,         \* the run of hack/link_to_repo.sh and the target repository
    installers      \* each process that is inside a call of installGitHook

hookVars == <<hooks, hookLast, foundForeign>>

diskVars == <<thoughts, entries, backing>>

initVars == <<configFile, thoughtsRepo, run, claudeMd>>

toolVars == <<script, walk, linker, installers>>

(***************************************************************************)
(* Bounds and program constants                                            *)
(***************************************************************************)

\* the largest hook version number that is installed in the model
MaxVersion == 10

\* const HOOK_VERSION = '4' in setupGitHooks
HOOK_VERSION == 4

Platforms == {"win32", "linux", "darwin"}

(***************************************************************************)
(* Text.  A script is a sequence of lines; a line is its literal text      *)
(* followed by a (possibly empty) run of decimal digits.                   *)
(***************************************************************************)

Line(txt) == [txt |-> txt, d |-> <<>>]

VersionLine(prefix, digits) == [txt |-> prefix, d |-> digits]

\* the line texts of the model that contain the substring 'HumanLayer thoughts'
MarkerLines ==
    { "// HumanLayer thoughts protection - prevent committing thoughts directory",
      "// HumanLayer thoughts auto-sync",
      "// HumanLayer thoughts" }

\* the line texts of the model that end in the substring 'Version: '
VersionPrefixes == { "// Version: " }

\* content.includes('HumanLayer thoughts')
IncludesMarker(content) ==
    \E i \in DOMAIN content : content[i].txt \in MarkerLines

\* content.match(/Version: (\d+)/)?.[1] : the digits of the first match, or
\* <<>> for undefined (\d+ never matches the empty string)
MatchVersion(content) ==
    LET hits == { i \in DOMAIN content :
                    content[i].txt \in VersionPrefixes /\ Len(content[i].d) > 0 }
    IN  IF hits = {} THEN <<>>
        ELSE content[CHOOSE i \in hits : \A j \in hits : i <= j].d

\* parseInt of a non-empty string of decimal digits
RECURSIVE ParseInt(_)
ParseInt(digits) ==
    IF Len(digits) = 0 THEN 0
    ELSE 10 * ParseInt(SubSeq(digits, 1, Len(digits) - 1)) + digits[Len(digits)]

\* the decimal text of a natural number, as `${version}` prints it
RECURSIVE ToDigits(_)
ToDigits(n) ==
    IF n < 10 THEN <<n>> ELSE Append(ToDigits(n \div 10), n % 10)

(***************************************************************************)
(* hooks.ts: the generated scripts                                         *)
(***************************************************************************)

\* mutant: the generated script carries no version line
generatePreCommitHook_NoVersion(version) ==
    << Line("#!/usr/bin/env node"),
       Line("// HumanLayer thoughts protection - prevent committing thoughts directory"),
       Line("<pre-commit script body>") >>

generatePreCommitHook(version) ==
    << Line("#!/usr/bin/env node"),
       Line("// HumanLayer thoughts protection - prevent committing thoughts directory"),
       VersionLine("// Version: ", version),
       Line("<pre-commit script body>") >>

generatePostCommitHook(version) ==
    << Line("#!/usr/bin/env node"),
       Line("// HumanLayer thoughts auto-sync"),
       VersionLine("// Version: ", version),
       Line("<post-commit script body>") >>

(***************************************************************************)
(* The hooks directory.  A path is a hook name with an optional '.old'     *)
(* suffix; a file has a content and an executable bit.                     *)
(***************************************************************************)

HookNames == {"pre-commit", "post-commit"}

\* path.join(hooksDir, hookName)
HookPath(hookName) == [name |-> hookName, suffix |-> ""]

\* `${hookPath}.old`
OldHookPath(hookPath) == [hookPath EXCEPT !.suffix = ".old"]

\* the paths of the hooks `names` and of their backups
HookPaths(names) == { [name |-> n, suffix |-> s] : n \in names, s \in {"", ".old"} }

NoFile == [exists |-> FALSE, content |-> <<>>, exec |-> FALSE]

File(content, exec) == [exists |-> TRUE, content |-> content, exec |-> exec]

ExistsSync(fs, p) == fs[p].exists

ReadFileSync(fs, p) == fs[p].content

\* rename(2): the destination is replaced when it exists
RenameSync(fs, from, to) == [fs EXCEPT ![to] = fs[from], ![from] = NoFile]

UnlinkSync(fs, p) == [fs EXCEPT ![p] = NoFile]

\* a new file is created without the executable bit; an existing one keeps its mode
WriteFileSync(fs, p, content) ==
    [fs EXCEPT ![p] = File(content, IF fs[p].exists THEN fs[p].exec ELSE FALSE)]

\* chmod 755, which the operating system may refuse (ok = FALSE: it throws)
ChmodSync(fs, p, ok) == IF ok THEN [fs EXCEPT ![p].exec = TRUE] ELSE fs

Op(op, path) == [op |-> op, path |-> path]

(***************************************************************************)
(* hooks.ts: installGitHook                                                *)
(***************************************************************************)

\* mutant: the versions are compared with <= instead of <
hookNeedsVersionUpdate_Lte(fs, hookPath, newContent) ==
    IF ~ExistsSync(fs, hookPath) THEN TRUE
    ELSE LET existingVersion == MatchVersion(ReadFileSync(fs, hookPath))
             newVersion == MatchVersion(newContent)
         IN  IF existingVersion = <<>> \/ newVersion = <<>> THEN TRUE
             ELSE ParseInt(existingVersion) <= ParseInt(newVersion)

\* mutant: any difference of version, also a downgrade, asks for an update
hookNeedsVersionUpdate_Neq(fs, hookPath, newContent) ==
    IF ~ExistsSync(fs, hookPath) THEN TRUE
    ELSE LET existingVersion == MatchVersion(ReadFileSync(fs, hookPath))
             newVersion == MatchVersion(newContent)
         IN  IF existingVersion = <<>> \/ newVersion = <<>> THEN TRUE
             ELSE ParseInt(existingVersion) # ParseInt(newVersion)

\* the order of two runs of digits as strings: at the first position where
\* they differ the smaller digit decides, else the shorter run is the smaller
RECURSIVE StringLess(_, _)
StringLess(a, b) ==
    IF b = <<>> THEN FALSE
    ELSE IF a = <<>> THEN TRUE
    ELSE IF Head(a) # Head(b) THEN Head(a) < Head(b)
    ELSE StringLess(Tail(a), Tail(b))

\* mutant: the versions are compared as strings, without parseInt
hookNeedsVersionUpdate_AsStrings(fs, hookPath, newContent) ==
    IF ~ExistsSync(fs, hookPath) THEN TRUE
    ELSE LET existingVersion == MatchVersion(ReadFileSync(fs, hookPath))
             newVersion == MatchVersion(newContent)
         IN  IF existingVersion = <<>> \/ newVersion = <<>> THEN TRUE
             ELSE StringLess(existingVersion, newVersion)

\* mutant: a content without a version is taken to be up to date
hookNeedsVersionUpdate_NoVersionKept(fs, hookPath, newContent) ==
    IF ~ExistsSync(fs, hookPath) THEN TRUE
    ELSE LET existingVersion == MatchVersion(ReadFileSync(fs, hookPath))
             newVersion == MatchVersion(newContent)
         IN  IF existingVersion = <<>> \/ newVersion = <<>> THEN FALSE
             ELSE ParseInt(existingVersion) < ParseInt(newVersion)

hookNeedsVersionUpdate(fs, hookPath, newContent) ==
    IF ~ExistsSync(fs, hookPath) THEN TRUE
    ELSE LET existingVersion == MatchVersion(ReadFileSync(fs, hookPath))
             newVersion == MatchVersion(newContent)
         IN  IF existingVersion = <<>> \/ newVersion = <<>> THEN TRUE
             ELSE ParseInt(existingVersion) < ParseInt(newVersion)

needsUpdate(fs, hookPath, content) ==
    \/ ~ExistsSync(fs, hookPath)
    \/ ~IncludesMarker(ReadFileSync(fs, hookPath))
    \/ hookNeedsVersionUpdate(fs, hookPath, content)

\* mutant: the existing hook is always deleted, foreign or not
BackupExisting_AlwaysUnlink(fs, hookPath, oldHookPath) ==
    IF ExistsSync(fs, hookPath)
    THEN [fs |-> UnlinkSync(fs, hookPath), ops |-> <<Op("unlink", hookPath)>>]
    ELSE [fs |-> fs, ops |-> <<>>]

\* mutant: the existing hook is always backed up, also a stale hook of ours
BackupExisting_AlwaysRename(fs, hookPath, oldHookPath) ==
    IF ExistsSync(fs, hookPath)
    THEN [fs |-> RenameSync(fs, hookPath, oldHookPath),
          ops |-> <<Op("rename", hookPath)>>]
    ELSE [fs |-> fs, ops |-> <<>>]

\* "Backup existing non-HumanLayer hook": the file system after it and the
\* calls it made
BackupExisting(fs, hookPath, oldHookPath) ==
    IF ExistsSync(fs, hookPath)
    THEN LET existing == ReadFileSync(fs, hookPath)
         IN  IF ~IncludesMarker(existing)
             THEN [fs |-> RenameSync(fs, hookPath, oldHookPath),
                   ops |-> <<Op("rename", hookPath)>>]
             ELSE [fs |-> UnlinkSync(fs, hookPath),
                   ops |-> <<Op("unlink", hookPath)>>]
    ELSE [fs |-> fs, ops |-> <<>>]

\* mutant: the new content lands in the backup file
WriteNewHook_ToOld(fs, hookPath, content) ==
    [fs |-> WriteFileSync(fs, OldHookPath(hookPath), content),
     ops |-> <<Op("write", OldHookPath(hookPath))>>]

\* "Write new hook"
WriteNewHook(fs, hookPath, content) ==
    [fs |-> WriteFileSync(fs, hookPath, content),
     ops |-> <<Op("write", hookPath)>>]

\* mutant: chmod is attempted on every platform
MakeExecutable_Everywhere(fs, plat, hookPath, chmodOk) ==
    [fs |-> ChmodSync(fs, hookPath, chmodOk), ops |-> <<Op("chmod", hookPath)>>]

\* "Make executable on Unix": chmod is attempted off Windows only and its
\* failure is swallowed
MakeExecutable(fs, plat, hookPath, chmodOk) ==
    IF plat # "win32"
    THEN [fs |-> ChmodSync(fs, hookPath, chmodOk), ops |-> <<Op("chmod", hookPath)>>]
    ELSE [fs |-> fs, ops |-> <<>>]

\* installGitHook(hooksDir, hookName, content): the file system after the
\* call, the result's `updated`, and the mutating calls made, in order
installGitHook(fs, plat, hookName, content, chmodOk) ==
    LET hookPath == HookPath(hookName)
        oldHookPath == OldHookPath(hookPath)
    IN  IF ~needsUpdate(fs, hookPath, content)
        THEN [fs |-> fs, updated |-> FALSE, ops |-> <<>>]
        ELSE LET b == BackupExisting(fs, hookPath, oldHookPath)
                 w == WriteNewHook(b.fs, hookPath, content)
                 x == MakeExecutable(w.fs, plat, hookPath, chmodOk)
             IN  [fs |-> x.fs, updated |-> TRUE, ops |-> b.ops \o w.ops \o x.ops]

(***************************************************************************)
(* The hooks directory as a state machine                                  *)
(***************************************************************************)

VersionNumbers == {0, HOOK_VERSION} \cup (9 .. MaxVersion)

VersionStrings == { ToDigits(n) : n \in VersionNumbers }

\* scripts of other tools: no product marker
ForeignContents ==
    { << Line("#!/bin/bash"), Line("echo hi") >>,
      << Line("#!/bin/sh"), Line("exec lint-staged") >> }

\* a script with a version marker and no product marker
UnmarkedVersioned ==
    << Line("#!/usr/bin/env node"), VersionLine("// Version: ", ToDigits(HOOK_VERSION)) >>

\* a script with the product marker and no version marker
MarkedUnversioned ==
    << Line("#!/usr/bin/env node"), Line("// HumanLayer thoughts"),
       VersionLine("// Version: ", <<>>) >>

generateHook(hookName, version) ==
    IF hookName = "pre-commit" THEN generatePreCommitHook(version)
    ELSE generatePostCommitHook(version)

\* the contents installGitHook is called with
InstallContents(hookName) ==
    { generateHook(hookName, v) : v \in VersionStrings }
        \cup { UnmarkedVersioned, MarkedUnversioned }

\* the hooks directory with no hook of the name `n` and no backup of one
InitialHooks(n) == [p \in HookPaths({n}) |-> NoFile]

\* no call yet.  `existed` and `found` record what a call found at the hook path
NoCall ==
    [call |-> "none", hookName |-> "", content |-> <<>>, existed |-> FALSE,
     found |-> <<>>, updated |-> FALSE, ops |-> <<>>, streak |-> 0]

\* an empty hooks directory, of which the model follows the files of `names`
InitHooks(names) ==
    /\ hooks = [p \in HookPaths(names) |-> NoFile]
    /\ hookLast = NoCall
    /\ foundForeign = {}

\* one call of installGitHook.  streak counts the successive calls with one
\* content that started on a missing hook file: 1 for the first, 2 for the second
InstallGitHook(hookName, content, chmodOk) ==
    LET hookPath == HookPath(hookName)
        r == installGitHook(hooks, platform, hookName, content, chmodOk)
        existed == ExistsSync(hooks, hookPath)
        foreign == existed /\ ~IncludesMarker(ReadFileSync(hooks, hookPath))
    IN  /\ hookPath \in DOMAIN hooks
        /\ hooks' = r.fs
        /\ hookLast' =
             [call |-> "installGitHook", hookName |-> hookName, content |-> content,
              existed |-> existed, found |-> ReadFileSync(hooks, hookPath),
              updated |-> r.updated, ops |-> r.ops,
              streak |-> IF ~existed THEN 1
                         ELSE IF /\ hookLast.call = "installGitHook"
                                 /\ hookLast.streak = 1
                                 /\ hookLast.hookName = hookName
                                 /\ hookLast.content = content
                              THEN 2 ELSE 0]
        /\ foundForeign' =
             IF foreign
             THEN foundForeign \cup
                    {[name |-> hookName, content |-> ReadFileSync(hooks, hookPath)]}
             ELSE foundForeign
        /\ UNCHANGED <<toolVars, platform, diskVars, setupLast, linkLast, initVars>>

\* the user puts a script of another tool at the hook path
UserReplaceHook(hookName, content) ==
    /\ HookPath(hookName) \in DOMAIN hooks
    /\ hooks' = [hooks EXCEPT ![HookPath(hookName)] = File(content, TRUE)]
    /\ hookLast' = [NoCall EXCEPT !.call = "user", !.hookName = hookName]
    /\ UNCHANGED <<toolVars, platform, foundForeign, diskVars, setupLast, linkLast, initVars>>

NextHooks ==
    \/ \E n \in HookNames : \E c \in InstallContents(n), ok \in BOOLEAN :
          InstallGitHook(n, c, ok)
    \/ \E n \in HookNames, c \in ForeignContents : UserReplaceHook(n, c)

\* installGitHook called with generated hooks only, as setupGitHooks calls it
InstallGeneratedHook(hookName, version, chmodOk) ==
    InstallGitHook(hookName, generateHook(hookName, version), chmodOk)

NextHooksGenerated ==
    \/ \E n \in HookNames, v \in VersionStrings, ok \in BOOLEAN :
          InstallGeneratedHook(n, v, ok)
    \/ \E n \in HookNames, c \in ForeignContents : UserReplaceHook(n, c)

\* the integers a hook is generated for: the version numbers and their negatives
SignedVersions == VersionNumbers \cup { 0 - v : v \in VersionNumbers }

\* the hook generated for the integer v: `${version}` prints a negative
\* number as a minus sign and the digits of its absolute value, so that the
\* sign stands between 'Version: ' and the digits
generateHookOf(hookName, v) ==
    IF v >= 0 THEN generateHook(hookName, ToDigits(v))
    ELSE [ i \in DOMAIN generateHook(hookName, ToDigits(0 - v)) |->
             LET line == generateHook(hookName, ToDigits(0 - v))[i]
             IN  IF line.txt = "// Version: "
                 THEN VersionLine("// Version: -", line.d) ELSE line ]

\* installGitHook called with the hook generated for an integer
InstallHookOf(hookName, v, chmodOk) ==
    InstallGitHook(hookName, generateHookOf(hookName, v), chmodOk)

NextVersions ==
    \E n \in HookNames, v \in SignedVersions, ok \in BOOLEAN : InstallHookOf(n, v, ok)

(***************************************************************************)
(* The thoughts directory of the current repository.  A path is absent, a  *)
(* plain file, a directory, a link (symlink or junction) whose target      *)
(* exists, or a dangling link.                                             *)
(***************************************************************************)

Kinds == {"absent", "file", "dir", "link", "dangling"}

\* fs.existsSync(p): follows links, so a dangling link does not exist
PathExists(kind) == kind \in {"file", "dir", "link"}

\* fs.lstatSync(p).isDirectory(): of the path itself, not of a link's target
IsDirectory(kind) == kind = "dir"

\* fs.lstatSync(p).isSymbolicLink(): true of symlinks and of junctions
IsSymbolicLink(kind) == kind \in {"link", "dangling"}

\* the user names a config may hold
Users == {"alice", "local", "shared", "global"}

\* the names under thoughts/ that the tool reads or writes
EntryNames == {"local", "shared", "global"} \cup Users

NoConfig == [present |-> FALSE, user |-> ""]

Config(user) == [present |-> TRUE, user |-> user]

Configs == {NoConfig} \cup { Config(u) : u \in Users }

MsgNone == ""
MsgNotDirectory == "thoughts exists but is not a directory"
MsgOldStructure == "thoughts directory uses old structure (needs upgrade)"
MsgNoConfig == "thoughts directory exists but configuration is missing"
MsgBroken == "thoughts directory exists but symlinks are missing or broken"

\* a result of checkExistingSetup; an omitted isOldStructure is FALSE and an
\* omitted message is MsgNone
Status(exists, isValid, isOldStructure, message) ==
    [exists |-> exists, isValid |-> isValid, isOldStructure |-> isOldStructure,
     message |-> message]

\* mutant: whatever exists at the path counts as a link
HasLink_ExistsOnly(ent, name) == PathExists(ent[name])

\* fs.existsSync(p) && fs.lstatSync(p).isSymbolicLink()
HasLink(ent, name) == PathExists(ent[name]) /\ IsSymbolicLink(ent[name])

\* mutant: the configuration is looked at before the old structure
checkExistingSetup_ConfigFirst(th, ent, config) ==
    IF ~PathExists(th) THEN Status(FALSE, FALSE, FALSE, MsgNone)
    ELSE IF ~IsDirectory(th) THEN Status(TRUE, FALSE, FALSE, MsgNotDirectory)
    ELSE IF ~config.present THEN Status(TRUE, FALSE, FALSE, MsgNoConfig)
    ELSE IF HasLink(ent, "local") THEN Status(TRUE, FALSE, TRUE, MsgOldStructure)
    ELSE IF \/ ~HasLink(ent, config.user)
            \/ ~HasLink(ent, "shared")
            \/ ~HasLink(ent, "global")
         THEN Status(TRUE, FALSE, FALSE, MsgBroken)
    ELSE Status(TRUE, TRUE, FALSE, MsgNone)

\* mutant: the test that thoughts is a directory is missing
checkExistingSetup_NoDirTest(th, ent, config) ==
    IF ~PathExists(th) THEN Status(FALSE, FALSE, FALSE, MsgNone)
    ELSE IF HasLink(ent, "local") THEN Status(TRUE, FALSE, TRUE, MsgOldStructure)
    ELSE IF ~config.present THEN Status(TRUE, FALSE, FALSE, MsgNoConfig)
    ELSE IF \/ ~HasLink(ent, config.user)
            \/ ~HasLink(ent, "shared")
            \/ ~HasLink(ent, "global")
         THEN Status(TRUE, FALSE, FALSE, MsgBroken)
    ELSE Status(TRUE, TRUE, FALSE, MsgNone)

\* checkExistingSetup(config), with <cwd>/thoughts being `th` and holding `ent`
checkExistingSetup(th, ent, config) ==
    IF ~PathExists(th) THEN Status(FALSE, FALSE, FALSE, MsgNone)
    ELSE IF ~IsDirectory(th) THEN Status(TRUE, FALSE, FALSE, MsgNotDirectory)
    ELSE IF HasLink(ent, "local") THEN Status(TRUE, FALSE, TRUE, MsgOldStructure)
    ELSE IF ~config.present THEN Status(TRUE, FALSE, FALSE, MsgNoConfig)
    ELSE IF \/ ~HasLink(ent, config.user)
            \/ ~HasLink(ent, "shared")
            \/ ~HasLink(ent, "global")
         THEN Status(TRUE, FALSE, FALSE, MsgBroken)
    ELSE Status(TRUE, TRUE, FALSE, MsgNone)

(***************************************************************************)
(* symlink.ts: createDirectoryLink                                         *)
(***************************************************************************)

\* the directories of the backing repository that the links point to
Targets == {"repos/project/user", "repos/project/shared", "global"}

\* what fs.symlinkSync may throw: an Error with a message, or any other value
Thrown(isError, text) == [thrown |-> TRUE, isError |-> isError, text |-> text]

NotThrown == [thrown |-> FALSE, isError |-> FALSE, text |-> ""]

ErrEPERM == Thrown(TRUE, "EPERM: operation not permitted, symlink")
ErrEEXIST == Thrown(TRUE, "EEXIST: file already exists, symlink")
ErrENOENT == Thrown(TRUE, "ENOENT: no such file or directory, symlink")
ErrString == Thrown(FALSE, "String error")

\* the failures the operating system may add to those the disk state causes
Faults == {NotThrown, ErrEPERM, ErrENOENT, ErrString}

\* the texts of the model that contain the substring 'EPERM'
IncludesEPERM(text) == text = ErrEPERM.text

MsgAdmin ==
    "Permission denied. Try running as administrator or check if the target directory exists."

\* fs.symlinkSync(target, thoughts/<name>, type): the entries after the call and
\* what it threw.  It fails when the operating system refuses (fault), when the
\* parent directory is missing, and when the link path is taken.
SymlinkSync(th, ent, back, target, name, type, fault) ==
    IF fault.thrown THEN [ent |-> ent, error |-> fault]
    ELSE IF ~IsDirectory(th) THEN [ent |-> ent, error |-> ErrENOENT]
    ELSE IF ent[name] # "absent" THEN [ent |-> ent, error |-> ErrEEXIST]
    ELSE [ent |-> [ent EXCEPT ![name] = IF target \in back THEN "link" ELSE "dangling"],
          error |-> NotThrown]

LinkResult(success, type, message) ==
    [success |-> success, type |-> type, message |-> message]

\* mutant: every platform but Linux is taken for Windows
IsWin_NotLinux(plat) == plat # "linux"

\* const isWin = process.platform === 'win32'
IsWin(plat) == plat = "win32"

\* mutant: the administrator hint is given on every platform
createDirectoryLink_HintAnywhere(plat, th, ent, back, target, name, fault) ==
    LET isWin == IsWin(plat)
        type == IF isWin THEN "junction" ELSE "dir"
        r == SymlinkSync(th, ent, back, target, name, type, fault)
        calls == << [target |-> target, name |-> name, type |-> type] >>
        errorMessage == r.error.text
    IN  IF ~r.error.thrown
        THEN [ent |-> r.ent, calls |-> calls,
              result |-> LinkResult(TRUE, IF isWin THEN "junction" ELSE "symlink", "")]
        ELSE IF IncludesEPERM(errorMessage)
        THEN [ent |-> r.ent, calls |-> calls,
              result |-> LinkResult(FALSE, "junction", MsgAdmin)]
        ELSE [ent |-> r.ent, calls |-> calls,
              result |-> LinkResult(FALSE, IF isWin THEN "junction" ELSE "symlink",
                                    errorMessage)]

\* mutant: a failed link creation is tried a second time
createDirectoryLink_Retry(plat, th, ent, back, target, name, fault) ==
    LET isWin == IsWin(plat)
        type == IF isWin THEN "junction" ELSE "dir"
        first == SymlinkSync(th, ent, back, target, name, type, fault)
        r == IF first.error.thrown
             THEN SymlinkSync(th, ent, back, target, name, type, NotThrown)
             ELSE first
        call == [target |-> target, name |-> name, type |-> type]
        calls == IF first.error.thrown THEN <<call, call>> ELSE <<call>>
        errorMessage == r.error.text
    IN  IF ~r.error.thrown
        THEN [ent |-> r.ent, calls |-> calls,
              result |-> LinkResult(TRUE, IF isWin THEN "junction" ELSE "symlink", "")]
        ELSE IF isWin /\ IncludesEPERM(errorMessage)
        THEN [ent |-> r.ent, calls |-> calls,
              result |-> LinkResult(FALSE, "junction", MsgAdmin)]
        ELSE [ent |-> r.ent, calls |-> calls,
              result |-> LinkResult(FALSE, IF isWin THEN "junction" ELSE "symlink",
                                    errorMessage)]

\* createDirectoryLink(target, thoughts/<name>): the entries after the call,
\* the symlinkSync calls it made and its result
createDirectoryLink(plat, th, ent, back, target, name, fault) ==
    LET isWin == IsWin(plat)
        type == IF isWin THEN "junction" ELSE "dir"
        r == SymlinkSync(th, ent, back, target, name, type, fault)
        calls == << [target |-> target, name |-> name, type |-> type] >>
        errorMessage == r.error.text
    IN  IF ~r.error.thrown
        THEN [ent |-> r.ent, calls |-> calls,
              result |-> LinkResult(TRUE, IF isWin THEN "junction" ELSE "symlink", "")]
        ELSE IF isWin /\ IncludesEPERM(errorMessage)
        THEN [ent |-> r.ent, calls |-> calls,
              result |-> LinkResult(FALSE, "junction", MsgAdmin)]
        ELSE [ent |-> r.ent, calls |-> calls,
              result |-> LinkResult(FALSE, IF isWin THEN "junction" ELSE "symlink",
                                    errorMessage)]

(***************************************************************************)
(* The thoughts directory as a state machine                               *)
(***************************************************************************)

NoCheck == [call |-> "none", config |-> NoConfig, result |-> Status(FALSE, FALSE, FALSE, MsgNone)]

\* no call yet.  `thrown` records what symlinkSync threw inside the call
NoLink ==
    [call |-> "none", target |-> "", name |-> "", calls |-> <<>>,
     thrown |-> NotThrown, result |-> LinkResult(FALSE, "symlink", "")]

InitDisk ==
    /\ thoughts = "absent"
    /\ entries = [n \in EntryNames |-> "absent"]
    /\ setupLast = NoCheck
    /\ linkLast = NoLink

\* something outside the tool makes <cwd>/thoughts a `kind`, with nothing in it
EnvSetThoughts(kind) ==
    /\ thoughts' = kind
    /\ entries' = [n \in EntryNames |-> "absent"]
    /\ setupLast' = NoCheck
    /\ linkLast' = NoLink
    /\ UNCHANGED <<toolVars, platform, hookVars, backing, initVars>>

\* something outside the tool makes thoughts/<name> a `kind`
EnvSetEntry(name, kind) ==
    /\ IsDirectory(thoughts)
    /\ entries' = [entries EXCEPT ![name] = kind]
    /\ setupLast' = NoCheck
    /\ linkLast' = NoLink
    /\ UNCHANGED <<toolVars, platform, hookVars, thoughts, backing, initVars>>

\* one call of checkExistingSetup; it reads the disk and changes nothing
CheckExistingSetup(config) ==
    /\ setupLast' = [call |-> "checkExistingSetup", config |-> config,
                     result |-> checkExistingSetup(thoughts, entries, config)]
    /\ UNCHANGED <<toolVars, platform, hookVars, diskVars, linkLast, initVars>>

\* one call of createDirectoryLink(target, thoughts/<name>)
CreateDirectoryLink(target, name, fault) ==
    LET r == createDirectoryLink(platform, thoughts, entries, backing, target, name, fault)
        thrown == SymlinkSync(thoughts, entries, backing, target, name, "dir", fault).error
    IN  /\ entries' = r.ent
        /\ linkLast' = [call |-> "createDirectoryLink", target |-> target, name |-> name,
                        calls |-> r.calls, thrown |-> thrown, result |-> r.result]
        /\ setupLast' = NoCheck
        /\ UNCHANGED <<toolVars, platform, hookVars, thoughts, backing, initVars>>

NextSetup ==
    \/ \E k \in Kinds : EnvSetThoughts(k)
    \/ \E n \in EntryNames, k \in Kinds : EnvSetEntry(n, k)
    \/ \E c \in Configs : CheckExistingSetup(c)

\* the links a setup pass of the user alice creates
LinkNames == {"alice", "shared", "global"}

NextLink ==
    \/ \E k \in {"absent", "dir"} : EnvSetThoughts(k)
    \/ \E n \in LinkNames : EnvSetEntry(n, "absent")
    \/ \E t \in Targets, n \in LinkNames, f \in Faults : CreateDirectoryLink(t, n, f)

(***************************************************************************)
(* thoughts init: the configuration document, the backing repositories and *)
(* the options and answers a run is given                                  *)
(***************************************************************************)

\* the code repositories a config may map; the command runs in CurrentRepo
Repos == {"/code/a", "/code/b"}

\* getCurrentRepoPath(): the repository the processes of the model run in
CurrentRepo == "/code/a"

\* the characters of the directory names of the model
NameChars == {"a", "b", " ", "_"}

\* the characters that /[^a-zA-Z0-9_-]/ does not match
SafeChars == {"a", "b", "_"}

\* mutant: the name is used as it was typed
sanitizeDirectoryName_Identity(name) == name

\* name.replace(/[^a-zA-Z0-9_-]/g, '_'), a name being a sequence of characters
sanitizeDirectoryName(name) ==
    [i \in 1 .. Len(name) |-> IF name[i] \in SafeChars THEN name[i] ELSE "_"]

\* the empty string: an option that was not given, an answer of only Enter
NoName == <<>>

\* the directory names typed by the user or given with --directory
TypedNames == {<<"a">>, <<"b", " ">>}

\* the directory names that exist in a backing repository of the model
DirNames == {<<"a">>, <<"b", "_">>}

\* the profile names a config may hold, and those given with --profile
ProfileNames == {"work"}

ProfileOptions == {"", "work", "nope"}

\* a value of config.repoMappings[repo]: undefined, a bare directory name, or
\* a {repo, profile} pair
NoMapping == [kind |-> "undefined", repo |-> NoName, profile |-> ""]

StringMapping(name) == [kind |-> "string", repo |-> name, profile |-> ""]

ObjectMapping(name, profile) == [kind |-> "object", repo |-> name, profile |-> profile]

\* !mappedName: undefined and the empty string are falsy, an object never is
IsFalsy(mapping) ==
    \/ mapping.kind = "undefined"
    \/ mapping.kind = "string" /\ mapping.repo = NoName

\* the configuration document: loadThoughtsConfig returns null when it is missing
NoDoc ==
    [present |-> FALSE, user |-> "", repoMappings |-> [r \in Repos |-> NoMapping],
     profiles |-> {}, globalDir |-> ""]

\* a document with the default names: reposDir is 'repos', globalDir 'global'
Doc(user, repoMappings, profiles) ==
    [present |-> TRUE, user |-> user, repoMappings |-> repoMappings,
     profiles |-> profiles, globalDir |-> "global"]

\* text.toLowerCase(), for the user names and the answers of the model
ToLowerCase(user) ==
    CASE user = "Global" -> "global"
      [] user = "Y"      -> "y"
      [] user = "N"      -> "n"
      [] OTHER           -> user

\* process.env.USER || 'user'
DefaultUser == "alice"

\* what the user may type at the username prompt; "" is only Enter
UserInputs == {"", "alice", "local", "shared", "global", "Global"}

\* mutant: every name is accepted at the username prompt
AcceptsUser_Any(user) == user # ""

\* the username prompt loop ends with `user`: !(!user || user.toLowerCase() === 'global')
AcceptsUser(user) == user # "" /\ ToLowerCase(user) # "global"

\* the key of the backing repository a profile name resolves to; "" is the
\* top-level thoughtsRepo of the config
ProfileKeys == {""} \cup ProfileNames

\* a backing repository: whether its root exists and the directories under
\* its reposDir
NoBackingRepo == [exists |-> FALSE, dirs |-> {}]

BackingRepo(dirs) == [exists |-> TRUE, dirs |-> dirs]

\* validateProfile(config, profileName): the name is a key of config.profiles
validateProfile(config, profileName) == profileName \in config.profiles

\* the profile name of tempProfileConfig
TempProfileKey(config, profile) ==
    IF profile # "" /\ profile \in config.profiles THEN profile ELSE ""

\* resolveProfileForRepo(config, repo): the profile of the repository's mapping
\* when the config holds that profile, the top-level triple otherwise
resolveProfileForRepo(config, repo) ==
    LET m == config.repoMappings[repo]
    IN  IF m.kind = "object" /\ m.profile \in config.profiles THEN m.profile ELSE ""

\* ensureThoughtsRepoExists(thoughtsRepo, reposDir, globalDir): the root, its
\* reposDir and its globalDir exist afterwards
ensureThoughtsRepoExists(repos, key) ==
    [repos EXCEPT ![key] = BackingRepo(repos[key].dirs)]

\* createThoughtsDirectoryStructure(profileConfig, mappedName, user): the
\* directory of the mapped name exists afterwards, with its user and shared
\* directories, and so does the global directory
createThoughtsDirectoryStructure(repos, key, name) ==
    [repos EXCEPT ![key] = BackingRepo(repos[key].dirs \cup {name})]

\* saveThoughtsConfig(config): the document is replaced as a whole
saveThoughtsConfig(file, config) == config

\* loadThoughtsConfig(): the document as it is on disk
loadThoughtsConfig(file) == file

(***************************************************************************)
(* thoughts init: thoughtsInitCommand as a sequence of steps.  A step      *)
(* holds at most one access to the configuration document, so that two     *)
(* processes interleave where the program lets them.                       *)
(***************************************************************************)

\* the processes that run thoughtsInitCommand in CurrentRepo
Procs == {"p1", "p2"}

\* getCurrentRepoPath() of a process: p1 runs in CurrentRepo, whose thoughts/
\* and hooks the disk variables of the model describe; p2 runs in the other
\* repository
RepoOf(p) == IF p = "p1" THEN CurrentRepo ELSE "/code/b"

\* InitOptions: force, directory and profile, "" and NoName for an absent one
Options(force, directory, profile) ==
    [force |-> force, directory |-> directory, profile |-> profile]

NoOptions == Options(FALSE, NoName, "")

\* a process that is not running the command, and the locals of a run:
\* `links` holds userLink, sharedLink, globalLink as far as they are made,
\* `at` names the place where the run ended, afterPartial is history (see
\* Invoke), savedSince is history: another process saved the document after
\* this run loaded it
NoRun ==
    [pc |-> "idle", options |-> NoOptions, config |-> NoDoc,
     mappedName |-> NoMapping, added |-> FALSE,
     setupStatus |-> Status(FALSE, FALSE, FALSE, MsgNone),
     links |-> <<>>, exitCode |-> 0, at |-> "", afterPartial |-> FALSE,
     savedSince |-> FALSE, hookCalls |-> <<>>, pull |-> "", fault |-> "",
     declined |-> FALSE]

\* process.exit(code), or the return of the command with code 0.  Of the
\* locals of the run the model keeps the config, the setup status, the link
\* results and the history (declined: the reconfigure prompt was shown and
\* the answer to it was not 'y' or 'Y').
Exit(r, code, at) ==
    [NoRun EXCEPT !.pc = "exited", !.exitCode = code, !.at = at,
                  !.config = r.config, !.setupStatus = r.setupStatus,
                  !.added = r.added, !.links = r.links,
                  !.afterPartial = r.afterPartial, !.savedSince = r.savedSince,
                  !.hookCalls = r.hookCalls, !.pull = r.pull, !.fault = r.fault,
                  !.declined = r.declined]

\* the targets of the three links: repoTarget/<user>, repoTarget/shared and
\* globalTarget
UserTarget(user) ==
    IF user = "shared" THEN "repos/project/shared" ELSE "repos/project/user"

SharedTarget == "repos/project/shared"

GlobalTarget == "global"

\* getRepoNameFromPath(currentRepo): the default directory name
DefaultName == <<"a">>

\* the answers a run may be given at its prompts: reconfigure, fix and
\* recreate ("" is only Enter), the entry selected from the list of existing
\* directories (NoName selects 'Create new directory') and the name typed
Answers(reconfigure, fix, recreate, selection, nameInput) ==
    [reconfigure |-> reconfigure, fix |-> fix, recreate |-> recreate,
     selection |-> selection, nameInput |-> nameInput]

AllAnswers ==
    { Answers(a, b, c, s, NoName) :
        a \in {"", "y"}, b \in {"", "n"}, c \in {"", "n"}, s \in DirNames }
    \cup { Answers(a, b, c, NoName, n) :
        a \in {"", "y"}, b \in {"", "n"}, c \in {"", "n"},
        n \in TypedNames \cup {NoName} }
    \cup { Answers(a, b, "", s, NoName) : a \in {"Y", "n"}, b \in {"N"}, s \in DirNames }

\* mutant: an unknown profile is not rejected
ProfileRejected_Never(config, options) == FALSE

\* options.profile && !validateProfile(config, options.profile)
ProfileRejected(config, options) ==
    options.profile # "" /\ ~validateProfile(config, options.profile)

\* mutant: an existing setup is redone without asking
SetupCancelled_Never(setupStatus, options, answers) == FALSE

\* the run returns at a prompt about the existing setup
SetupCancelled(setupStatus, options, answers) ==
    /\ setupStatus.exists
    /\ ~options.force
    /\ IF setupStatus.isValid THEN ToLowerCase(answers.reconfigure) # "y"
       ELSE ToLowerCase(answers.fix) = "n"

\* mutant: --directory names a directory that need not exist
DirectoryRejected_Never(existingRepos, directory) == FALSE

\* !existingRepos.includes(sanitizeDirectoryName(options.directory))
DirectoryRejected(existingRepos, directory) ==
    sanitizeDirectoryName(directory) \notin existingRepos

\* the directory name chosen in interactive mode
InteractiveName(existingRepos, answers) ==
    IF existingRepos # {} /\ answers.selection \in existingRepos
    THEN answers.selection
    ELSE sanitizeDirectoryName(IF answers.nameInput = NoName THEN DefaultName
                               ELSE answers.nameInput)

\* config.repoMappings[currentRepo] = options.profile ? {repo, profile} : mappedName
WithMapping(config, repo, options, name) ==
    [config EXCEPT !.repoMappings[repo] =
        IF options.profile # "" THEN ObjectMapping(name, options.profile)
        ELSE StringMapping(name)]

\* the command from the profile validation to the mapping held in memory: the
\* run afterwards and the backing repositories afterwards.  The options are
\* not read after this part of the command and are dropped from the locals.
ConfigureRun(r, repo, th, ent, repos, answers) ==
    LET config == r.config
        options == r.options
        key == TempProfileKey(config, options.profile)
        setupStatus == checkExistingSetup(th, ent, config)
        asked == setupStatus.exists /\ ~options.force /\ setupStatus.isValid
        checked == [r EXCEPT !.setupStatus = setupStatus, !.options = NoOptions,
                             !.declined =
                                 asked /\ ToLowerCase(answers.reconfigure) # "y"]
        repos1 == ensureThoughtsRepoExists(repos, key)
        existingRepos == repos1[key].dirs
        mappedName == config.repoMappings[repo]
        name == IF options.directory # NoName
                THEN sanitizeDirectoryName(options.directory)
                ELSE InteractiveName(existingRepos, answers)
    IN  IF ProfileRejected(config, options)
        THEN [run |-> Exit(r, 1, "profile"), repos |-> repos]
        ELSE IF SetupCancelled(setupStatus, options, answers)
        THEN [run |-> Exit(checked, 0, "cancelled"), repos |-> repos]
        ELSE IF ~repos[key].exists /\ answers.recreate = "n"
        THEN [run |-> Exit(checked, 1, "recreate"), repos |-> repos]
        ELSE IF ~IsFalsy(mappedName)
        THEN [run |-> [checked EXCEPT !.pc = "structure", !.mappedName = mappedName],
              repos |-> repos1]
        ELSE IF options.directory # NoName /\ DirectoryRejected(existingRepos, options.directory)
        THEN [run |-> Exit(checked, 1, "directory"), repos |-> repos1]
        ELSE [run |-> [checked EXCEPT !.pc = "save",
                                      !.mappedName = StringMapping(name),
                                      !.added = TRUE,
                                      !.config = WithMapping(config, repo, options, name)],
              repos |-> repos1]

\* mutant: both names are reported, whatever installGitHook returned
setupGitHooks_AlwaysBoth(fs, plat, chmodOk) ==
    LET pre == installGitHook(fs, plat, "pre-commit",
                              generatePreCommitHook(ToDigits(HOOK_VERSION)), chmodOk)
        post == installGitHook(pre.fs, plat, "post-commit",
                               generatePostCommitHook(ToDigits(HOOK_VERSION)), chmodOk)
    IN  [fs |-> post.fs,
         updated |-> <<"pre-commit", "post-commit">>,
         calls |-> <<"pre-commit", "post-commit">>,
         ops |-> pre.ops \o post.ops]

\* setupGitHooks(currentRepo): both hooks installed at HOOK_VERSION.  calls
\* is the hook names installGitHook was called for, ops the mutating calls
\* on the hooks directory
setupGitHooks(fs, plat, chmodOk) ==
    LET pre == installGitHook(fs, plat, "pre-commit",
                              generatePreCommitHook(ToDigits(HOOK_VERSION)), chmodOk)
        post == installGitHook(pre.fs, plat, "post-commit",
                               generatePostCommitHook(ToDigits(HOOK_VERSION)), chmodOk)
    IN  [fs |-> post.fs,
         updated |-> (IF pre.updated THEN <<"pre-commit">> ELSE <<>>)
                        \o (IF post.updated THEN <<"post-commit">> ELSE <<>>),
         calls |-> <<"pre-commit", "post-commit">>,
         ops |-> pre.ops \o post.ops]

\* no pass yet
NoPass ==
    [call |-> "none", threw |-> FALSE, updated |-> <<>>, calls |-> <<>>,
     ops |-> <<>>, streak |-> 0]

\* one pass of setupGitHooks over the hooks directory; it throws, before it
\* touches the directory, when `git rev-parse --git-common-dir` fails.
\* streak counts the successive passes that returned: 1, then 2
SetupGitHooks(gitOk, chmodOk) ==
    LET h == setupGitHooks(hooks, platform, chmodOk)
        streak == IF hookLast.call = "setupGitHooks" /\ ~hookLast.threw THEN 2 ELSE 1
    IN  /\ hooks' = IF gitOk THEN h.fs ELSE hooks
        /\ hookLast' =
             IF gitOk
             THEN [call |-> "setupGitHooks", threw |-> FALSE, updated |-> h.updated,
                   calls |-> h.calls, ops |-> h.ops, streak |-> streak]
             ELSE [NoPass EXCEPT !.call = "setupGitHooks", !.threw = TRUE]
        /\ UNCHANGED <<toolVars, platform, foundForeign, diskVars, setupLast, linkLast,
                       initVars>>

\* another tool, or another version of this one, changes a hook file: a
\* foreign script or a generated hook of some version is put at the hook path
EnvSetHook(hookName, content) ==
    /\ hooks' = [hooks EXCEPT ![HookPath(hookName)] = File(content, TRUE)]
    /\ hookLast' = [NoPass EXCEPT !.call = "env"]
    /\ UNCHANGED <<toolVars, platform, foundForeign, diskVars, setupLast, linkLast,
                   initVars>>

NextSetupHooks ==
    \/ \E gitOk \in BOOLEAN, chmodOk \in BOOLEAN : SetupGitHooks(gitOk, chmodOk)
    \/ \E n \in HookNames :
          \E c \in ForeignContents \cup { generateHook(n, v) : v \in VersionStrings } :
             EnvSetHook(n, c)

\* the three links of a run in the order of the code
LinkPcs == <<"linkUser", "linkShared", "linkGlobal">>

LinkIndex(pc) == CHOOSE i \in 1 .. Len(LinkPcs) : LinkPcs[i] = pc

LinkNameOf(pc, user) ==
    IF pc = "linkUser" THEN user ELSE IF pc = "linkShared" THEN "shared" ELSE "global"

LinkTargetOf(pc, user) ==
    IF pc = "linkUser" THEN UserTarget(user)
    ELSE IF pc = "linkShared" THEN SharedTarget ELSE GlobalTarget

\* mutant: the run stops linking at the first failed link
AfterLink_StopAtFailure(pc, links) ==
    IF ~links[Len(links)].result.success \/ pc = "linkGlobal"
    THEN IF \E i \in 1 .. Len(links) : ~links[i].result.success
         THEN "exit1" ELSE "finish"
    ELSE LinkPcs[LinkIndex(pc) + 1]

\* mutant: a run whose links failed goes on as if they were made
AfterLink_IgnoreFailure(pc, links) ==
    IF pc # "linkGlobal" THEN LinkPcs[LinkIndex(pc) + 1] ELSE "finish"

\* where a run goes after the link made at `pc`: to the next link, and after
\* the last one to process.exit(1) when a link failed
AfterLink(pc, links) ==
    IF pc # "linkGlobal" THEN LinkPcs[LinkIndex(pc) + 1]
    ELSE IF \E i \in 1 .. Len(links) : ~links[i].result.success
         THEN "exit1" ELSE "finish"

(***************************************************************************)
(* thoughts init: the steps of a run as actions                            *)
(***************************************************************************)

\* thoughts/ of the repository of a process.  That of p2 is not among the
\* variables: it is absent before the one run that p2 makes and holds the
\* links of that run afterwards.
ThoughtsOf(p) ==
    IF RepoOf(p) = CurrentRepo THEN thoughts
    ELSE IF run[p].pc \in {"linkUser", "linkShared", "linkGlobal", "finish"}
         THEN "dir" ELSE "absent"

EntriesOf(p) ==
    IF RepoOf(p) = CurrentRepo THEN entries
    ELSE [n \in EntryNames |->
            IF \E i \in 1 .. Len(run[p].links) :
                  run[p].links[i].name = n /\ run[p].links[i].result.success
            THEN "link" ELSE "absent"]

\* the options a run may be started with
AllOptions ==
    { Options(f, d, pr) :
        f \in BOOLEAN, d \in TypedNames \cup {NoName}, pr \in ProfileOptions }

\* the start of the command up to loadThoughtsConfig: process.exit(1) outside
\* a git repository, else the document is loaded.  afterPartial is history:
\* the previous run of the process made its three link attempts and ended
\* with one of the three links missing from the disk.
Invoke(p, options, inGit) ==
    LET prev == run[p]
        partial == /\ prev.pc = "exited"
                   /\ Len(prev.links) = Len(LinkPcs)
                   /\ IsDirectory(thoughts)
                   /\ \E n \in {prev.config.user, "shared", "global"} :
                         ~(PathExists(entries[n]) /\ IsSymbolicLink(entries[n]))
        config == loadThoughtsConfig(configFile)
        started == [NoRun EXCEPT !.options = options, !.afterPartial = partial]
    IN  /\ prev.pc \in {"idle", "exited"}
        /\ run' = [run EXCEPT ![p] =
                     IF ~inGit THEN Exit(started, 1, "git")
                     ELSE [started EXCEPT !.config = config,
                                          !.pc = IF config.present THEN "configured"
                                                 ELSE "loaded"]]
        /\ UNCHANGED <<toolVars, platform, hookVars, diskVars, setupLast, linkLast,
                       configFile, thoughtsRepo, claudeMd>>

\* os.homedir(), and a path as the sequence of its components
HomeDir == "/home/u"

\* expandPath(p): a leading ~ is replaced by the home directory
expandPath(p) == IF p # <<>> /\ Head(p) = "~" THEN <<HomeDir>> \o Tail(p) ELSE p

\* p.replace(os.homedir(), '~')
ReplaceHome(p) == IF p # <<>> /\ Head(p) = HomeDir THEN <<"~">> \o Tail(p) ELSE p

\* what may be typed at 'Directory name for global thoughts [global]: '
GlobalDirInputs == {"", "global", "notes", "g"}

\* the {thoughtsRepo, reposDir, globalDir} triple of a profile key: the
\* top-level triple of the config for "", else the triple of the profile.
\* thoughtsRepo is kept as typed, with its ~
ProfileConfig(config, key) ==
    IF key = ""
    THEN [thoughtsRepo |-> <<"~", "thoughts">>, reposDir |-> "repos",
          globalDir |-> config.globalDir]
    ELSE [thoughtsRepo |-> <<"~", key>>, reposDir |-> "repos", globalDir |-> "global"]

\* getGlobalThoughtsPath(profileConfig): thoughtsRepo/globalDir, expanded
getGlobalThoughtsPath(profileConfig) ==
    expandPath(profileConfig.thoughtsRepo) \o <<profileConfig.globalDir>>

\* thoughts/CLAUDE.md is not there
NoClaudeMd ==
    [exists |-> FALSE, user |-> "", repoName |-> NoName, reposPath |-> <<>>,
     globalPath |-> <<>>]

\* generateClaudeMd(thoughtsRepo, reposDir, repoName, user): the names and the
\* paths that the text of the document is made of
generateClaudeMd(profileConfig, repoName, user) ==
    [exists |-> TRUE, user |-> user, repoName |-> repoName,
     reposPath |-> ReplaceHome(profileConfig.thoughtsRepo
                                 \o <<profileConfig.reposDir, repoName>>),
     globalPath |-> ReplaceHome(profileConfig.thoughtsRepo \o <<"global">>)]

\* the initial setup of a run that found no document: the username prompt is
\* repeated until it ends with `userInput`, the name of the global directory
\* is `globalDirInput` or 'global', the backing repository is made and the
\* document is saved with no mapping
CreateConfig(p, userInput, globalDirInput, fault) ==
    LET r == run[p]
        user == IF userInput = "" THEN DefaultUser ELSE userInput
        globalDir == IF globalDirInput = "" THEN "global" ELSE globalDirInput
        config == [Doc(user, [repo \in Repos |-> NoMapping], {})
                      EXCEPT !.globalDir = globalDir]
    IN  /\ r.pc = "loaded"
        /\ AcceptsUser(user)
        /\ IF fault
           THEN /\ run' = [run EXCEPT ![p] = Exit(r, 1, "catch")]
                /\ UNCHANGED <<configFile, thoughtsRepo>>
           ELSE /\ thoughtsRepo' = ensureThoughtsRepoExists(thoughtsRepo, "")
                /\ configFile' = saveThoughtsConfig(configFile, config)
                /\ run' = [run EXCEPT ![p] = [r EXCEPT !.config = config,
                                                       !.pc = "configured"]]
        /\ UNCHANGED <<toolVars, platform, hookVars, diskVars, setupLast, linkLast, claudeMd>>

\* from the profile validation to the mapping held in memory
Configure(p, answers) ==
    LET c == ConfigureRun(run[p], RepoOf(p), ThoughtsOf(p), EntriesOf(p),
                          thoughtsRepo, answers)
    IN  /\ run[p].pc = "configured"
        /\ run' = [run EXCEPT ![p] = c.run]
        /\ thoughtsRepo' = c.repos
        /\ UNCHANGED <<toolVars, platform, hookVars, diskVars, setupLast, linkLast,
                       configFile, claudeMd>>

\* mutant: the document is loaded again and the mapping added to it
SavedDocument_Reloaded(r, repo, file) ==
    [loadThoughtsConfig(file) EXCEPT !.repoMappings[repo] = r.config.repoMappings[repo]]

\* the document a run saves: the config it loaded at the start, with the
\* mapping it added
SavedDocument(r, repo, file) == r.config

\* saveThoughtsConfig(config, options) of a run that added a mapping
SaveMapping(p) ==
    /\ run[p].pc = "save"
    /\ configFile' =
         saveThoughtsConfig(configFile, SavedDocument(run[p], RepoOf(p), configFile))
    /\ run' = [q \in Procs |->
                IF q = p THEN [run[p] EXCEPT !.pc = "structure"]
                ELSE IF run[q].pc \in {"loaded", "configured", "save"}
                     THEN [run[q] EXCEPT !.savedSince = TRUE]
                     ELSE run[q]]
    /\ UNCHANGED <<toolVars, platform, hookVars, diskVars, setupLast, linkLast,
                   thoughtsRepo, claudeMd>>

\* String(value) of a {repo, profile} pair
ObjectText == <<"[object Object]">>

\* the path component that the local `mappedName` gives: the local holds the
\* value of config.repoMappings[currentRepo] as it is, or the name chosen in
\* this run.  A string is the component; a {repo, profile} pair is no string,
\* and where it is not refused with a TypeError its text is the component.
DirectoryNameOf(mappedName) ==
    IF mappedName.kind = "object" THEN ObjectText ELSE mappedName.repo

\* resolveProfileForRepo and createThoughtsDirectoryStructure; a throw ends the
\* run in the catch of the command
CreateStructure(p, fault) ==
    LET r == run[p]
        key == resolveProfileForRepo(r.config, RepoOf(p))
    IN  /\ r.pc = "structure"
        /\ IF fault
           THEN /\ run' = [run EXCEPT ![p] = Exit(r, 1, "catch")]
                /\ UNCHANGED <<thoughtsRepo, backing>>
           ELSE /\ thoughtsRepo' =
                     createThoughtsDirectoryStructure(thoughtsRepo, key,
                                                      DirectoryNameOf(r.mappedName))
                /\ backing' = IF RepoOf(p) = CurrentRepo THEN Targets ELSE backing
                /\ run' = [run EXCEPT ![p].pc = "thoughtsDir"]
        /\ UNCHANGED <<toolVars, platform, hookVars, thoughts, entries, setupLast, linkLast,
                       configFile, claudeMd>>

\* <cwd>/thoughts is removed when existsSync finds it, and made anew;
\* mkdirSync throws over a dangling link, which existsSync does not find
MakeThoughtsDir(p) ==
    LET r == run[p]
    IN  /\ r.pc = "thoughtsDir"
        /\ IF RepoOf(p) # CurrentRepo
           THEN /\ run' = [run EXCEPT ![p].pc = "linkUser"]
                /\ UNCHANGED <<thoughts, entries, claudeMd>>
           ELSE IF PathExists(thoughts) \/ thoughts = "absent"
           THEN /\ thoughts' = "dir"
                /\ entries' = [n \in EntryNames |-> "absent"]
                /\ claudeMd' = NoClaudeMd
                /\ run' = [run EXCEPT ![p].pc = "linkUser"]
           ELSE /\ run' = [run EXCEPT ![p] = Exit(r, 1, "catch")]
                /\ UNCHANGED <<thoughts, entries, claudeMd>>
        /\ UNCHANGED <<toolVars, platform, hookVars, backing, setupLast, linkLast,
                       configFile, thoughtsRepo>>

\* the faults of symlinkSync that a run of the command is given
InitFaults == {NotThrown, ErrEPERM}

\* one of userLink, sharedLink, globalLink, and after the last of them the
\* check that all three succeeded
LinkStep(p, fault) ==
    LET r == run[p]
        name == LinkNameOf(r.pc, r.config.user)
        l == createDirectoryLink(platform, ThoughtsOf(p), EntriesOf(p),
                                 IF RepoOf(p) = CurrentRepo THEN backing ELSE Targets,
                                 LinkTargetOf(r.pc, r.config.user), name, fault)
        links == Append(r.links, [name |-> name, result |-> l.result])
        next == AfterLink(r.pc, links)
        linked == [r EXCEPT !.links = links]
    IN  /\ r.pc \in {"linkUser", "linkShared", "linkGlobal"}
        /\ entries' = IF RepoOf(p) = CurrentRepo THEN l.ent ELSE entries
        /\ run' = [run EXCEPT ![p] =
                     IF next = "exit1" THEN Exit(linked, 1, "links")
                     ELSE [linked EXCEPT !.pc = next]]
        /\ UNCHANGED <<toolVars, platform, hookVars, thoughts, backing, setupLast, linkLast,
                       configFile, thoughtsRepo, claudeMd>>

\* the rest of the command: the links for other users, the best-effort pull,
\* `git remote get-url origin` and `git pull --rebase` in the backing
\* repository: there is no remote, the pull fails, or it succeeds
PullOutcomes == {"noRemote", "failed", "ok"}

\* mutant: a failed pull ends the command as any other thrown error does
PullAborts_OnFailure(pull) == pull = "failed"

\* "Pull latest thoughts if remote exists": both try blocks have a catch
\* that goes on, so no outcome of the pull ends the command
PullAborts(pull) == FALSE

\* the other users' links, the pull, thoughts/CLAUDE.md and the git hooks.
\* `fault` names the call that throws; hookCalls, pull and fault are history.
Finish(p, fault, pull, chmodOk) ==
    LET r == run[p]
        canWrite == fault # "update" /\ ~PullAborts(pull) /\ IsDirectory(ThoughtsOf(p))
        installed == canWrite /\ fault # "hooks"
        followed == RepoOf(p) = CurrentRepo
        h == setupGitHooks(hooks, platform, chmodOk)
        done == [r EXCEPT !.pull = IF fault = "update" THEN "" ELSE pull,
                          !.fault = fault,
                          !.hookCalls = IF installed THEN h.calls ELSE <<>>]
    IN  /\ r.pc = "finish"
        /\ claudeMd' =
             IF canWrite /\ followed
             THEN generateClaudeMd(
                      ProfileConfig(r.config, resolveProfileForRepo(r.config, RepoOf(p))),
                      DirectoryNameOf(r.mappedName), r.config.user)
             ELSE claudeMd
        /\ hooks' = IF installed /\ followed THEN h.fs ELSE hooks
        /\ run' = [run EXCEPT ![p] =
                     IF installed THEN Exit(done, 0, "done")
                     ELSE Exit(done, 1, "catch")]
        /\ UNCHANGED <<toolVars, platform, hookLast, foundForeign, diskVars, setupLast,
                       linkLast, configFile, thoughtsRepo>>

FinishFaults == {"none", "update", "hooks"}

\* the steps of the command taken by process p
StepOf(p) ==
    \/ \E o \in AllOptions, g \in BOOLEAN : Invoke(p, o, g)
    \/ \E u \in UserInputs, f \in BOOLEAN : CreateConfig(p, u, "", f)
    \/ \E a \in AllAnswers : Configure(p, a)
    \/ SaveMapping(p)
    \/ \E f \in BOOLEAN : CreateStructure(p, f)
    \/ MakeThoughtsDir(p)
    \/ \E f \in InitFaults : LinkStep(p, f)
    \/ \E f \in FinishFaults, pull \in PullOutcomes, ok \in BOOLEAN :
          Finish(p, f, pull, ok)

\* one process runs the command again and again
NextInit == StepOf("p1")

\* the steps of an interactive run in a repository of a user who has no
\* configuration yet and names the global directory at the prompt
NextClaudeMd ==
    \/ \E g \in BOOLEAN : Invoke("p1", NoOptions, g)
    \/ \E g \in GlobalDirInputs : CreateConfig("p1", "", g, FALSE)
    \/ \E a \in AllAnswers : Configure("p1", a)
    \/ SaveMapping("p1")
    \/ CreateStructure("p1", FALSE)
    \/ MakeThoughtsDir("p1")
    \/ \E f \in InitFaults : LinkStep("p1", f)
    \/ \E pull \in PullOutcomes : Finish("p1", "none", pull, TRUE)

\* the answers of the runs that race: no prompt about an existing setup is
\* declined, a directory is selected or a new one named
RaceAnswers ==
    { Answers("", "", "", s, n) : s \in {NoName, DefaultName}, n \in TypedNames }

\* the steps of the one interactive run that process p makes in a race
RaceStepOf(p) ==
    \/ run[p].pc = "idle" /\ Invoke(p, NoOptions, TRUE)
    \/ \E a \in RaceAnswers : Configure(p, a)
    \/ SaveMapping(p)
    \/ CreateStructure(p, FALSE)
    \/ MakeThoughtsDir(p)
    \/ LinkStep(p, NotThrown)
    \/ Finish(p, "none", "ok", TRUE)

\* two processes run the command at the same time, each in its repository
NextRace == \E p \in Procs : RaceStepOf(p)

(***************************************************************************)
(* hooks.ts: the generated scripts as git runs them.  A staged path is the *)
(* sequence of its segments and separators; a commit message is a sequence *)
(* of words and white space.                                               *)
(***************************************************************************)

StagedPaths ==
    { <<"thoughts", "/", "notes.md">>,
      <<"src", "/", "thoughts", "/", "a.ts">>,
      <<"thoughts.md">> }

\* line.startsWith('thoughts/')
StartsWithThoughts(line) ==
    Len(line) >= 2 /\ line[1] = "thoughts" /\ line[2] = "/"

\* staged.split(/\r?\n/) of the trimmed output of `git diff --cached
\* --name-only`: one line per staged path, one empty line when nothing is staged
StagedLines(index) == IF index = {} THEN { <<>> } ELSE index

\* git reset HEAD -- thoughts/ : the index without the paths under thoughts/
ResetThoughts(index) == { p \in index : ~StartsWithThoughts(p) }

\* the message of the error execSync throws for a failed command
CommandFailed(command) == <<"Command failed: ", command>>

\* mutant: the catch block exits on every error that has a message
IncludesCannotCommit_Always(message) == message # <<>>

\* error.message.includes('Cannot commit')
IncludesCannotCommit(message) ==
    \E i \in DOMAIN message :
        message[i] \in {"Cannot commit thoughts/ to code repository"}

WhiteSpace == {" ", "\n"}

\* String.prototype.trim
RECURSIVE Trim(_)
Trim(text) ==
    IF text = <<>> THEN text
    ELSE IF Head(text) \in WhiteSpace THEN Trim(Tail(text))
    ELSE IF text[Len(text)] \in WhiteSpace THEN Trim(SubSeq(text, 1, Len(text) - 1))
    ELSE text

\* the output of `git log -1 --pretty=%B` for the commits of the model
CommitMessages == { <<"fix", "\n", "\n">>, <<"add", " ", "x", "\n">> }

\* process.argv.slice(2) of a hook: git passes no argument to pre-commit and
\* post-commit, a hook manager may pass some
HookArgs == { <<>>, <<"--verbose">> }

\* mutant: the sync process is spawned without unref()
SpawnSync_Referenced(commitMsg) ==
    [command |-> "humanlayer",
     args |-> <<"thoughts", "sync", "--message">>
                \o << <<"Auto-sync with commit: ">> \o commitMsg >>,
     detached |-> TRUE, stdio |-> "ignore", unref |-> FALSE]

\* spawn('humanlayer', ['thoughts', 'sync', '--message', ...], {detached, stdio}).unref()
SpawnSync(commitMsg) ==
    [command |-> "humanlayer",
     args |-> <<"thoughts", "sync", "--message">>
                \o << <<"Auto-sync with commit: ">> \o commitMsg >>,
     detached |-> TRUE, stdio |-> "ignore", unref |-> TRUE]

\* a child keeps the event loop of its parent alive until it ends, unless
\* unref() was called on it
KeepsAlive(child) == ~child.unref

\* what execFileSync(oldHook, ...) finds: the old hook ends with status 0, or
\* it throws with err.status the exit status, which is null (0 here) when the
\* old hook was killed by a signal or could not be started
OldHookOutcomes ==
    { [ok |-> TRUE, status |-> 0], [ok |-> FALSE, status |-> 1],
      [ok |-> FALSE, status |-> 3], [ok |-> FALSE, status |-> 0] }

\* err.status || 1
StatusOrOne(status) == IF status = 0 THEN 1 ELSE status

\* no hook script is running.  index is the staged paths, dotGit what
\* <cwd>/.git is, oldCalls the argument lists the old hook was called with,
\* oldFailed and oldStatus how its last call ended; sawThoughts records that the check found a staged path under thoughts/,
\* diffFailed that `git diff --cached --name-only` failed
NoScript ==
    [pc |-> "idle", hookName |-> "", argv |-> <<>>, index |-> {}, dotGit |-> "dir",
     log |-> <<>>, sawThoughts |-> FALSE, diffFailed |-> FALSE, spawned |-> <<>>, sync |-> "none",
     oldCalls |-> <<>>, oldFailed |-> FALSE, oldStatus |-> 0, exitCode |-> 0]

\* process.exit(code)
ScriptExit(s, code) == [s EXCEPT !.pc = "exited", !.exitCode = code]

\* git runs the installed hook: `git commit` runs pre-commit with the index
\* it is about to commit, and post-commit once the commit is written
GitRunsHook(hookName, index, dotGit, argv, log) ==
    /\ script.pc \in {"idle", "exited"}
    /\ ExistsSync(hooks, HookPath(hookName))
    /\ script' = [NoScript EXCEPT
                    !.pc = IF hookName = "pre-commit" THEN "check" ELSE "worktree",
                    !.hookName = hookName, !.argv = argv, !.index = index,
                    !.dotGit = dotGit, !.log = log]
    /\ UNCHANGED <<walk, linker, installers, platform, hookVars, diskVars, setupLast, linkLast, initVars>>

\* pre-commit, the try block and its catch
PreCommitCheck(diffOk, resetOk) ==
    /\ script.pc = "check"
    /\ script' =
         IF ~diffOk
         THEN \* execSync('git diff ...') throws
              IF IncludesCannotCommit(CommandFailed("git diff --cached --name-only"))
              THEN ScriptExit([script EXCEPT !.diffFailed = TRUE], 1)
              ELSE [script EXCEPT !.diffFailed = TRUE, !.pc = "old"]
         ELSE IF \E line \in StagedLines(script.index) : StartsWithThoughts(line)
         THEN IF resetOk
              THEN ScriptExit([script EXCEPT !.sawThoughts = TRUE,
                                             !.index = ResetThoughts(@)], 1)
              ELSE \* execSync('git reset ...') throws
                   IF IncludesCannotCommit(CommandFailed("git reset HEAD -- thoughts/"))
                   THEN ScriptExit([script EXCEPT !.sawThoughts = TRUE], 1)
                   ELSE [script EXCEPT !.sawThoughts = TRUE, !.pc = "old"]
         ELSE [script EXCEPT !.pc = "old"]
    /\ UNCHANGED <<walk, linker, installers, platform, hookVars, diskVars, setupLast, linkLast, initVars>>

\* post-commit, "Check if we're in a worktree"
PostCommitWorktree ==
    /\ script.pc = "worktree"
    /\ script' = IF script.dotGit = "file" THEN ScriptExit(script, 0)
                 ELSE [script EXCEPT !.pc = "sync"]
    /\ UNCHANGED <<walk, linker, installers, platform, hookVars, diskVars, setupLast, linkLast, initVars>>

\* post-commit, "Get the commit message" and "Auto-sync thoughts after each
\* commit": git has just written the commit whose message is read
PostCommitSync ==
    /\ script.pc = "sync"
    /\ LET commitMsg == Trim(script.log)
       IN  script' = [script EXCEPT !.pc = "old",
                                    !.spawned = Append(@, SpawnSync(commitMsg)),
                                    !.sync = "running"]
    /\ UNCHANGED <<walk, linker, installers, platform, hookVars, diskVars, setupLast, linkLast, initVars>>

\* "Call any existing pre-commit hook" / "Call any existing post-commit
\* hook": execFileSync returns when the old hook has ended
CallOldHook(outcome) ==
    /\ script.pc = "old"
    /\ LET oldHook == OldHookPath(HookPath(script.hookName))
       IN  script' =
             IF ExistsSync(hooks, oldHook)
             THEN LET called == [script EXCEPT !.oldCalls = Append(@, script.argv),
                                               !.oldFailed = ~outcome.ok,
                                               !.oldStatus = outcome.status]
                  IN  IF outcome.ok THEN [called EXCEPT !.pc = "end"]
                      ELSE ScriptExit(called, StatusOrOne(outcome.status))
             ELSE [script EXCEPT !.pc = "end"]
    /\ UNCHANGED <<walk, linker, installers, platform, hookVars, diskVars, setupLast, linkLast, initVars>>

\* the script has run to its end: node exits with 0 once nothing it refers
\* to keeps its event loop alive
ScriptEnd ==
    /\ script.pc \in {"end", "waiting"}
    /\ script' =
         IF script.sync = "running"
              /\ \E i \in DOMAIN script.spawned : KeepsAlive(script.spawned[i])
         THEN [script EXCEPT !.pc = "waiting"]
         ELSE ScriptExit(script, 0)
    /\ script.pc = "waiting" => script'.pc # "waiting"
    /\ UNCHANGED <<walk, linker, installers, platform, hookVars, diskVars, setupLast, linkLast, initVars>>

\* the spawned `humanlayer thoughts sync` ends, in its own time
SyncEnds ==
    /\ script.sync = "running"
    /\ script' = [script EXCEPT !.sync = "ended"]
    /\ UNCHANGED <<walk, linker, installers, platform, hookVars, diskVars, setupLast, linkLast, initVars>>

NextScript ==
    \/ \E index \in SUBSET StagedPaths, argv \in HookArgs :
          GitRunsHook("pre-commit", index, "dir", argv, <<>>)
    \/ \E dotGit \in {"dir", "file"}, argv \in HookArgs, log \in CommitMessages :
          GitRunsHook("post-commit", {}, dotGit, argv, log)
    \/ \E diffOk \in BOOLEAN, resetOk \in BOOLEAN : PreCommitCheck(diffOk, resetOk)
    \/ PostCommitWorktree
    \/ PostCommitSync
    \/ \E outcome \in OldHookOutcomes : CallOldHook(outcome)
    \/ ScriptEnd
    \/ SyncEnds

(***************************************************************************)
(* platform.ts: removeReadOnly and makeFileExecutable.  The tree under     *)
(* dirPath is a fixed finite tree; an entry is known by its name, the root *)
(* by the name "".                                                         *)
(***************************************************************************)

\* isWindows()
isWindows(plat) == plat = "win32"

RootDir == ""

\* fs.readdirSync(dir, { withFileTypes: true }): the entries of a directory
\* in the order the directory read gives them
Children(dir) ==
    CASE dir = RootDir -> <<"a", "b", "c">>
      [] dir = "a"     -> <<"x", "d">>
      [] dir = "d"     -> <<"y">>
      [] dir = "c"     -> <<"z">>
      [] OTHER         -> <<>>

\* entry.isDirectory()
IsDirEntry(name) == name \in {"a", "c", "d"}

TreeEntries == {"a", "b", "c", "x", "d", "y", "z"}

\* the directory that holds an entry
ParentOf(name) ==
    CHOOSE dir \in {RootDir} \cup TreeEntries :
        \E i \in DOMAIN Children(dir) : Children(dir)[i] = name

\* the directories above an entry, the root excluded
RECURSIVE AncestorsOf(_)
AncestorsOf(name) ==
    IF ParentOf(name) = RootDir THEN {}
    ELSE {ParentOf(name)} \cup AncestorsOf(ParentOf(name))

\* fs.existsSync(dir) in the walk: true, false, or (a mocked call) it throws
ExistsOutcomes == {"true", "false", "throws"}

\* no call.  stack holds the loops of removeReadOnlyRecursive that are
\* running, each with the entries it has still to visit; attempted is the
\* entries chmodSync was called on, failed the entries whose chmod or whose
\* directory read threw
NoWalk ==
    [call |-> "none", pc |-> "idle", dir |-> RootDir, stack |-> <<>>,
     attempted |-> {}, failed |-> {}, rootFailed |-> FALSE, subprocess |-> FALSE]

\* mutant: an exception thrown in the walk ends the whole walk
AfterThrow_OuterOnly(stack) == [pc |-> "returned", stack |-> <<>>]

\* mutant: an exception thrown in the walk reaches the caller
AfterThrow_Propagates(stack) == [pc |-> "raised", stack |-> <<>>]

\* where an exception thrown in the walk is caught: by the try of the loop
\* that is running, or without one by the try around the first call
AfterThrow(stack) ==
    [pc |-> IF stack = <<>> THEN "returned" ELSE "loop", stack |-> stack]

\* removeReadOnly(dirPath), up to the first call of removeReadOnlyRecursive
RemoveReadOnly(chmodOk) ==
    /\ walk.pc \in {"idle", "returned"}
    /\ walk' =
         IF ~isWindows(platform)
         THEN \* execSync(`chmod -R 755 "${dirPath}"`) in a try with an empty catch
              [NoWalk EXCEPT !.call = "removeReadOnly", !.pc = "returned",
                             !.subprocess = TRUE, !.rootFailed = ~chmodOk]
         ELSE [NoWalk EXCEPT !.call = "removeReadOnly", !.pc = "enter"]
    /\ UNCHANGED <<script, linker, installers, platform, hookVars, diskVars, setupLast, linkLast, initVars>>

\* removeReadOnlyRecursive(dir) from its call to the start of its loop
EnterDir(exists, readOk) ==
    /\ walk.pc = "enter"
    /\ LET thrown == exists = "throws" \/ (exists = "true" /\ ~readOk)
           caught == AfterThrow(walk.stack)
           back == [pc |-> IF walk.stack = <<>> THEN "returned" ELSE "loop",
                    stack |-> walk.stack]
       IN  walk' =
             IF thrown
             THEN [walk EXCEPT !.pc = caught.pc, !.stack = caught.stack,
                               !.failed = IF walk.dir = RootDir THEN @
                                          ELSE @ \cup {walk.dir},
                               !.rootFailed = @ \/ walk.dir = RootDir]
             ELSE IF exists = "false"
             THEN [walk EXCEPT !.pc = back.pc,
                               !.failed = IF walk.dir = RootDir THEN @
                                          ELSE @ \cup {walk.dir},
                               !.rootFailed = @ \/ walk.dir = RootDir]
             ELSE [walk EXCEPT !.pc = "loop",
                               !.stack = <<Children(walk.dir)>> \o @]
    /\ UNCHANGED <<script, linker, installers, platform, hookVars, diskVars, setupLast, linkLast, initVars>>

\* one turn of the loop over the entries of a directory, or its end
LoopStep(chmodOk) ==
    /\ walk.pc = "loop"
    /\ LET todo == Head(walk.stack)
           rest == Tail(walk.stack)
       IN  walk' =
             IF todo = <<>>
             THEN [walk EXCEPT !.stack = rest,
                               !.pc = IF rest = <<>> THEN "returned" ELSE "loop"]
             ELSE LET entry == Head(todo)
                      stack1 == <<Tail(todo)>> \o rest
                      caught == AfterThrow(stack1)
                  IN  IF ~chmodOk
                      THEN [walk EXCEPT !.attempted = @ \cup {entry},
                                        !.failed = @ \cup {entry},
                                        !.pc = caught.pc, !.stack = caught.stack]
                      ELSE [walk EXCEPT !.attempted = @ \cup {entry},
                                        !.stack = stack1,
                                        !.dir = IF IsDirEntry(entry) THEN entry ELSE @,
                                        !.pc = IF IsDirEntry(entry) THEN "enter"
                                               ELSE "loop"]
    /\ UNCHANGED <<script, linker, installers, platform, hookVars, diskVars, setupLast, linkLast, initVars>>

\* makeFileExecutable(filePath)
MakeFileExecutable(chmodOk) ==
    /\ walk.pc \in {"idle", "returned"}
    /\ walk' =
         IF ~isWindows(platform)
         THEN [NoWalk EXCEPT !.call = "makeFileExecutable", !.pc = "returned",
                             !.attempted = {"file"},
                             !.failed = IF chmodOk THEN {} ELSE {"file"}]
         ELSE [NoWalk EXCEPT !.call = "makeFileExecutable", !.pc = "returned"]
    /\ UNCHANGED <<script, linker, installers, platform, hookVars, diskVars, setupLast, linkLast, initVars>>

NextPerm ==
    \/ \E ok \in BOOLEAN : RemoveReadOnly(ok)
    \/ \E exists \in ExistsOutcomes, ok \in BOOLEAN : EnterDir(exists, ok)
    \/ \E ok \in BOOLEAN : LoopStep(ok)
    \/ \E ok \in BOOLEAN : MakeFileExecutable(ok)

\* no hook script and no permission call is running
(***************************************************************************)
(* hack/link_to_repo.sh.  The paths of the target repository are known by  *)
(* their names relative to it; a symbolic link is known by the source it   *)
(* names, and "elsewhere" is a link to an existing path outside the model. *)
(***************************************************************************)

\* the links of the script in the order of the code: the target of each, its
\* source under $HUMANLAYER_DIR is the path of the same name
MinimalTargets == <<".claude/agents", ".claude/commands", "hack/spec_metadata.sh">>

FullTargets ==
    <<"hack/create_worktree.sh", "hack/cleanup_worktree.sh", "hack/linear">>

AllTargets == { MinimalTargets[i] : i \in DOMAIN MinimalTargets }
                 \cup { FullTargets[i] : i \in DOMAIN FullTargets }

LinkDirs == {".claude", "hack"}

DirOf(target) == IF target \in {".claude/agents", ".claude/commands"} THEN ".claude"
                 ELSE "hack"

\* what a path of the target repository is
Absent == [kind |-> "absent", to |-> ""]

Plain(kind) == [kind |-> kind, to |-> ""]

SymLink(source) == [kind |-> "symlink", to |-> source]

\* [ -e path ]: the path exists, a symbolic link being followed
TestE(fs, sources, path) ==
    \/ fs[path].kind \in {"file", "dir"}
    \/ fs[path].kind = "symlink" /\ fs[path].to \in sources \cup {"elsewhere"}

\* mkdir -p dir: nothing when it is a directory, status 1 when it is a file
MkdirP(fs, sources, dir) ==
    IF fs[dir].kind = "absent" THEN [fs |-> [fs EXCEPT ![dir] = Plain("dir")], status |-> 0]
    ELSE IF fs[dir].kind = "dir" \/ (fs[dir].kind = "symlink" /\ TestE(fs, sources, dir))
    THEN [fs |-> fs, status |-> 0]
    ELSE [fs |-> fs, status |-> 1]

\* ln -s source target: status 1 when the target is there, as a dangling link
\* is although [ -e ] does not find it
LnS(fs, source, target) ==
    IF fs[target].kind = "absent"
    THEN [fs |-> [fs EXCEPT ![target] = SymLink(source)], status |-> 0]
    ELSE [fs |-> fs, status |-> 1]

\* link_file source target description
link_file(fs, sources, source, target) ==
    IF TestE(fs, sources, target) THEN [fs |-> fs, status |-> 0]
    ELSE LnS(fs, source, target)

\* the command lines of the model; "repo" is the target repository, "nodir"
\* a path that is no directory
CommandLines ==
    { <<>>, <<"repo">>, <<"repo", "--full">>, <<"--full", "repo">>,
      <<"repo", "--minimal">>, <<"repo", "--full", "--minimal">>, <<"--help">>,
      <<"repo", "extra">>, <<"nodir">> }

\* the while loop over the arguments: what it ends with
RECURSIVE ParseArgs(_, _, _)
ParseArgs(args, targetRepo, mode) ==
    IF args = <<>> THEN [exit |-> FALSE, code |-> 0, targetRepo |-> targetRepo, mode |-> mode]
    ELSE IF Head(args) \in {"--help", "-h"}
    THEN [exit |-> TRUE, code |-> 0, targetRepo |-> targetRepo, mode |-> mode]
    ELSE IF Head(args) = "--full" THEN ParseArgs(Tail(args), targetRepo, "full")
    ELSE IF Head(args) = "--minimal" THEN ParseArgs(Tail(args), targetRepo, "minimal")
    ELSE IF targetRepo = "" THEN ParseArgs(Tail(args), Head(args), mode)
    ELSE [exit |-> TRUE, code |-> 1, targetRepo |-> targetRepo, mode |-> mode]

\* the commands of the script after `cd "$TARGET_REPO"`, in their order
Commands(mode) ==
    << [cmd |-> "mkdir", path |-> ".claude"],
       [cmd |-> "link", path |-> MinimalTargets[1]],
       [cmd |-> "link", path |-> MinimalTargets[2]],
       [cmd |-> "mkdir", path |-> "hack"],
       [cmd |-> "link", path |-> MinimalTargets[3]] >>
    \o IF mode = "full"
       THEN [i \in DOMAIN FullTargets |-> [cmd |-> "link", path |-> FullTargets[i]]]
       ELSE <<>>

\* the script is not running.  fs is the target repository, sources the paths
\* that exist under $HUMANLAYER_DIR; args and mode are those of the run, `at`
\* the command it is at.  History: prev is how the run before this one ended,
\* before is the target repository when this run began
NoPrev == [ran |-> FALSE, args |-> <<>>, exitCode |-> 0]

NoLinker ==
    [pc |-> "idle", args |-> <<>>, mode |-> "minimal", at |-> 1, exitCode |-> 0,
     fs |-> [t \in AllTargets \cup LinkDirs |-> Absent], sources |-> AllTargets,
     before |-> [t \in AllTargets \cup LinkDirs |-> Absent], prev |-> NoPrev]

\* the script is started: the arguments, the validation of the target
\* repository and the cd into it
RunLinkScript(args) ==
    LET parsed == ParseArgs(args, "", "minimal")
        started == [linker EXCEPT
                      !.args = args, !.mode = parsed.mode, !.at = 1,
                      !.before = linker.fs,
                      !.prev = IF linker.pc = "exited"
                               THEN [ran |-> TRUE, args |-> linker.args,
                                     exitCode |-> linker.exitCode]
                               ELSE NoPrev]
    IN  /\ linker.pc \in {"idle", "exited"}
        /\ linker' =
             IF parsed.exit THEN [started EXCEPT !.pc = "exited", !.exitCode = parsed.code]
             ELSE IF parsed.targetRepo # "repo"
             THEN [started EXCEPT !.pc = "exited", !.exitCode = 1]
             ELSE [started EXCEPT !.pc = "running", !.exitCode = 0]
        /\ UNCHANGED <<script, walk, installers, platform, hookVars, diskVars, setupLast, linkLast,
                       initVars>>

\* the next command of the script; under `set -e` a command that fails ends
\* the script with its status
LinkScriptStep ==
    LET commands == Commands(linker.mode)
        c == commands[linker.at]
        done == IF c.cmd = "mkdir" THEN MkdirP(linker.fs, linker.sources, c.path)
                ELSE link_file(linker.fs, linker.sources, c.path, c.path)
    IN  /\ linker.pc = "running"
        /\ linker' =
             IF done.status # 0
             THEN [linker EXCEPT !.pc = "exited", !.exitCode = done.status]
             ELSE IF linker.at = Len(commands)
             THEN [linker EXCEPT !.fs = done.fs, !.pc = "exited", !.exitCode = 0]
             ELSE [linker EXCEPT !.fs = done.fs, !.at = @ + 1]
        /\ UNCHANGED <<script, walk, installers, platform, hookVars, diskVars, setupLast, linkLast,
                       initVars>>

NextLinkScript ==
    \/ \E args \in CommandLines : RunLinkScript(args)
    \/ LinkScriptStep

(***************************************************************************)
(* hooks.ts: installGitHook called by two processes at once.  A call is a  *)
(* sequence of system calls on the hooks directory; between two of them    *)
(* the other process may make its own.                                     *)
(***************************************************************************)

\* the hook that the two processes install, and its content
RacedHook == "pre-commit"

RacedContent == generateHook(RacedHook, ToDigits(HOOK_VERSION))

\* a process outside installGitHook.  pc names the system call the process
\* makes next, `marked` is what its last read found: the product marker
NoInstaller == [pc |-> "idle", marked |-> FALSE, updated |-> FALSE]

\* the call ends with an exception: a read, rename or unlink of a file that
\* is not there throws ENOENT, which installGitHook does not catch
Throws(i) == [i EXCEPT !.pc = "threw"]

\* the call returns {updated}
Returns(i, updated) == [i EXCEPT !.pc = "returned", !.updated = updated]

\* what a step of process p leaves alone besides the hooks directory
InstallerFrame ==
    UNCHANGED <<script, walk, linker, platform, hookLast, foundForeign, diskVars,
                setupLast, linkLast, initVars>>

\* installGitHook(hooksDir, 'pre-commit', content) is called
InstallerCall(p) ==
    /\ installers[p].pc = "idle"
    /\ installers' = [installers EXCEPT ![p].pc = "exists136"]
    /\ UNCHANGED hooks
    /\ InstallerFrame

\* needsUpdate: !fs.existsSync(hookPath)
NeedsUpdateExists(p) ==
    /\ installers[p].pc = "exists136"
    /\ installers' = [installers EXCEPT ![p].pc =
                        IF ExistsSync(hooks, HookPath(RacedHook)) THEN "read137"
                        ELSE "exists145"]
    /\ UNCHANGED hooks
    /\ InstallerFrame

\* needsUpdate: !fs.readFileSync(hookPath, 'utf8').includes('HumanLayer thoughts')
NeedsUpdateRead(p) ==
    /\ installers[p].pc = "read137"
    /\ installers' = [installers EXCEPT ![p] =
                        IF ~ExistsSync(hooks, HookPath(RacedHook)) THEN Throws(@)
                        ELSE IF IncludesMarker(ReadFileSync(hooks, HookPath(RacedHook)))
                        THEN [@ EXCEPT !.pc = "exists108"]
                        ELSE [@ EXCEPT !.pc = "exists145"]]
    /\ UNCHANGED hooks
    /\ InstallerFrame

\* hookNeedsVersionUpdate: if (!fs.existsSync(hookPath)) return true
VersionExists(p) ==
    /\ installers[p].pc = "exists108"
    /\ installers' = [installers EXCEPT ![p].pc =
                        IF ExistsSync(hooks, HookPath(RacedHook)) THEN "read110"
                        ELSE "exists145"]
    /\ UNCHANGED hooks
    /\ InstallerFrame

\* hookNeedsVersionUpdate: the read and the comparison of the versions, and
\* `if (!needsUpdate) return {updated: false}`
VersionRead(p) ==
    /\ installers[p].pc = "read110"
    /\ installers' = [installers EXCEPT ![p] =
                        IF ~ExistsSync(hooks, HookPath(RacedHook)) THEN Throws(@)
                        ELSE IF hookNeedsVersionUpdate(hooks, HookPath(RacedHook),
                                                       RacedContent)
                        THEN [@ EXCEPT !.pc = "exists145"]
                        ELSE Returns(@, FALSE)]
    /\ UNCHANGED hooks
    /\ InstallerFrame

\* "Backup existing non-HumanLayer hook": if (fs.existsSync(hookPath))
BackupExists(p) ==
    /\ installers[p].pc = "exists145"
    /\ installers' = [installers EXCEPT ![p].pc =
                        IF ExistsSync(hooks, HookPath(RacedHook)) THEN "read146"
                        ELSE "write157"]
    /\ UNCHANGED hooks
    /\ InstallerFrame

\* const existing = fs.readFileSync(hookPath, 'utf8')
BackupRead(p) ==
    /\ installers[p].pc = "read146"
    /\ installers' = [installers EXCEPT ![p] =
                        IF ~ExistsSync(hooks, HookPath(RacedHook)) THEN Throws(@)
                        ELSE [@ EXCEPT !.pc = "move",
                                       !.marked = IncludesMarker(
                                           ReadFileSync(hooks, HookPath(RacedHook)))]]
    /\ UNCHANGED hooks
    /\ InstallerFrame

\* fs.renameSync(hookPath, oldHookPath) when the content read has no marker,
\* fs.unlinkSync(hookPath) when it has
BackupMove(p) ==
    LET hookPath == HookPath(RacedHook)
    IN  /\ installers[p].pc = "move"
        /\ IF ~ExistsSync(hooks, hookPath)
           THEN /\ installers' = [installers EXCEPT ![p] = Throws(@)]
                /\ UNCHANGED hooks
           ELSE /\ installers' = [installers EXCEPT ![p].pc = "write157"]
                /\ hooks' = IF installers[p].marked THEN UnlinkSync(hooks, hookPath)
                            ELSE RenameSync(hooks, hookPath, OldHookPath(hookPath))
        /\ InstallerFrame

\* fs.writeFileSync(hookPath, content)
WriteHook(p) ==
    /\ installers[p].pc = "write157"
    /\ hooks' = WriteNewHook(hooks, HookPath(RacedHook), RacedContent).fs
    /\ installers' = [installers EXCEPT ![p].pc = "chmod"]
    /\ InstallerFrame

\* the chmod off Windows, whose failure is swallowed (the file may be gone),
\* and `return {updated: true}`
ChmodHook(p, chmodOk) ==
    LET hookPath == HookPath(RacedHook)
    IN  /\ installers[p].pc = "chmod"
        /\ hooks' = MakeExecutable(hooks, platform, hookPath,
                                   chmodOk /\ ExistsSync(hooks, hookPath)).fs
        /\ installers' = [installers EXCEPT ![p] = Returns(@, TRUE)]
        /\ InstallerFrame

\* two processes call installGitHook for one hook path, each once
NextInstallers ==
    \E p \in Procs :
        \/ InstallerCall(p)
        \/ NeedsUpdateExists(p)
        \/ NeedsUpdateRead(p)
        \/ VersionExists(p)
        \/ VersionRead(p)
        \/ BackupExists(p)
        \/ BackupRead(p)
        \/ BackupMove(p)
        \/ WriteHook(p)
        \/ \E ok \in BOOLEAN : ChmodHook(p, ok)

InitTools ==
    /\ script = NoScript
    /\ walk = NoWalk
    /\ linker = NoLinker
    /\ installers = [p \in Procs |-> NoInstaller]

\* the users of the documents that thoughtsInitCommand creates
CreatedUsers == {"alice", "local", "shared"}

\* the three createDirectoryLink calls of a run made in the order `order`,
\* each with the fault that `faultOf` gives its link: the entries afterwards
\* and the result of each call
RECURSIVE LinksInOrder(_, _, _, _, _, _, _)
LinksInOrder(plat, th, ent, back, user, order, faultOf) ==
    IF order = <<>> THEN [ent |-> ent, results |-> {}]
    ELSE LET which == Head(order)
             l == createDirectoryLink(plat, th, ent, back, LinkTargetOf(which, user),
                                      LinkNameOf(which, user), faultOf[which])
             rest == LinksInOrder(plat, th, l.ent, back, user, Tail(order), faultOf)
         IN  [ent |-> rest.ent,
              results |-> {[which |-> which, result |-> l.result]} \cup rest.results]

\* one of the three links of a run that makes them in any order
LinkInAnyOrder(p, which, fault) ==
    LET r == run[p]
        name == LinkNameOf(which, r.config.user)
        l == createDirectoryLink(platform, thoughts, entries, backing,
                                 LinkTargetOf(which, r.config.user), name, fault)
    IN  /\ r.pc = "linkAny"
        /\ \A i \in 1 .. Len(r.links) : r.links[i].which # which
        /\ entries' = l.ent
        /\ run' = [run EXCEPT ![p].links =
                     Append(@, [which |-> which, fault |-> fault, result |-> l.result])]
        /\ UNCHANGED <<toolVars, platform, hookVars, thoughts, backing, setupLast, linkLast,
                       configFile, thoughtsRepo, claudeMd>>

NextLinkOrder ==
    \E which \in {"linkUser", "linkShared", "linkGlobal"}, f \in InitFaults :
       LinkInAnyOrder("p1", which, f)

\* a run that is about to make its links: thoughts/ is made and empty, the
\* directories of the backing repository exist
InitLinkOrder ==
    /\ platform \in Platforms
    /\ InitHooks(HookNames)
    /\ thoughts = "dir"
    /\ entries = [n \in EntryNames |-> "absent"]
    /\ backing = Targets
    /\ setupLast = NoCheck
    /\ linkLast = NoLink
    /\ \E u \in CreatedUsers :
          /\ configFile = Doc(u, [repo \in Repos |-> StringMapping(DefaultName)], {})
          /\ run = [p \in Procs |->
                      IF p = "p1" THEN [NoRun EXCEPT !.pc = "linkAny", !.config = configFile]
                      ELSE NoRun]
    /\ thoughtsRepo = [k \in ProfileKeys |->
                         IF k = "" THEN BackingRepo({DefaultName}) ELSE NoBackingRepo]
    /\ claudeMd = NoClaudeMd
    /\ InitTools

\* a config of the initial setup without mappings, and a backing repository
\* that holds the directory of another project
InitRace ==
    /\ platform \in Platforms
    /\ InitHooks(HookNames)
    /\ thoughts = "absent"
    /\ entries = [n \in EntryNames |-> "absent"]
    /\ backing = {}
    /\ setupLast = NoCheck
    /\ linkLast = NoLink
    /\ \E u \in CreatedUsers : configFile = Doc(u, [repo \in Repos |-> NoMapping], {})
    /\ thoughtsRepo = [k \in ProfileKeys |->
                         IF k = "" THEN BackingRepo({DefaultName}) ELSE NoBackingRepo]
    /\ run = [p \in Procs |-> NoRun]
    /\ claudeMd = NoClaudeMd
    /\ InitTools

\* the processes are idle and there is no configuration yet
InitIdle ==
    /\ configFile = NoDoc
    /\ thoughtsRepo = [k \in ProfileKeys |-> NoBackingRepo]
    /\ run = [p \in Procs |-> NoRun]
    /\ claudeMd = NoClaudeMd
    /\ InitTools

\* the state an earlier use of the tool may have left: no document and no
\* backing repository, or the document of an initial setup to which the
\* profile 'work' was added, with a backing repository that holds the
\* directory of another project.  CurrentRepo is not mapped yet.
InitConfigured ==
    /\ backing = {}
    /\ \/ /\ configFile = NoDoc
          /\ thoughtsRepo = [k \in ProfileKeys |-> NoBackingRepo]
       \/ \E u \in CreatedUsers :
             /\ configFile = Doc(u, [repo \in Repos |-> NoMapping], ProfileNames)
             /\ thoughtsRepo = [k \in ProfileKeys |->
                                 BackingRepo(IF k = "" THEN {DefaultName} ELSE {})]

InitCommand ==
    /\ platform \in {"win32", "linux"}
    /\ InitHooks(HookNames)
    /\ thoughts = "absent"
    /\ entries = [n \in EntryNames |-> "absent"]
    /\ setupLast = NoCheck
    /\ linkLast = NoLink
    /\ InitConfigured
    /\ run = [p \in Procs |-> NoRun]
    /\ claudeMd = NoClaudeMd
    /\ InitTools

vars ==
    <<platform, hooks, hookLast, foundForeign, thoughts, entries, backing,
      setupLast, linkLast, configFile, thoughtsRepo, run, claudeMd, script, walk,
      linker, installers>>

InitHooksAny ==
    /\ platform \in Platforms
    /\ \E n \in HookNames : InitHooks({n})
    /\ InitDisk
    /\ backing = Targets
    /\ InitIdle

\* the hook installer, called with any content
SpecHooks == InitHooksAny /\ [][NextHooks]_vars

\* the hook installer, called with generated hooks
SpecHooksGenerated == InitHooksAny /\ [][NextHooksGenerated]_vars

\* the hook installer, called with the hooks generated for any integer
SpecVersions == InitHooksAny /\ [][NextVersions]_vars

InitSetup ==
    /\ platform \in Platforms
    /\ InitHooks(HookNames)
    /\ InitDisk
    /\ backing = Targets
    /\ InitIdle

\* the state inspector over every state of the thoughts directory
SpecSetup == InitSetup /\ [][NextSetup]_vars

\* pass after pass of setupGitHooks over a hooks directory that other tools
\* change as well
SpecSetupHooks == InitSetup /\ [][NextSetupHooks]_vars

InitLink ==
    /\ platform \in Platforms
    /\ InitHooks(HookNames)
    /\ InitDisk
    /\ backing \in SUBSET Targets
    /\ InitIdle

\* the directory linker, with any part of the backing repository missing
SpecLink == InitLink /\ [][NextLink]_vars

\* thoughtsInitCommand run again and again by one process
SpecInit == InitCommand /\ [][NextInit]_vars

\* two runs of thoughtsInitCommand in two repositories at the same time
InitClaudeMd ==
    /\ platform = "linux"
    /\ InitHooks(HookNames)
    /\ thoughts = "absent"
    /\ entries = [n \in EntryNames |-> "absent"]
    /\ setupLast = NoCheck
    /\ linkLast = NoLink
    /\ backing = {}
    /\ configFile = NoDoc
    /\ thoughtsRepo = [k \in ProfileKeys |-> NoBackingRepo]
    /\ run = [p \in Procs |-> NoRun]
    /\ claudeMd = NoClaudeMd
    /\ InitTools

SpecClaudeMd == InitClaudeMd /\ [][NextClaudeMd]_vars

\* the target repository before the first run: .claude is absent, a
\* directory or a file, hack is absent or a directory, in a directory that is
\* there a target may be a file or a link already; under $HUMANLAYER_DIR one
\* of the sources may be missing
InitLinkScript ==
    /\ platform = "linux"
    /\ InitHooks(HookNames)
    /\ thoughts = "absent"
    /\ entries = [n \in EntryNames |-> "absent"]
    /\ setupLast = NoCheck
    /\ linkLast = NoLink
    /\ backing = {}
    /\ configFile = NoDoc
    /\ thoughtsRepo = [k \in ProfileKeys |-> NoBackingRepo]
    /\ run = [p \in Procs |-> NoRun]
    /\ claudeMd = NoClaudeMd
    /\ script = NoScript
    /\ walk = NoWalk
    /\ installers = [p \in Procs |-> NoInstaller]
    /\ \E claude \in {"absent", "dir", "file"}, hack \in {"absent", "dir"},
          commands \in {Absent, Plain("file"), SymLink("elsewhere")},
          linear \in {Absent, Plain("dir")},
          missing \in {{}, {".claude/agents"}, {"hack/linear"}} :
          /\ claude # "dir" => commands = Absent
          /\ hack # "dir" => linear = Absent
          /\ linker = [NoLinker EXCEPT
                         !.sources = AllTargets \ missing,
                         !.fs = [NoLinker.fs EXCEPT
                                   ![".claude"] = Plain(claude),
                                   !["hack"] = Plain(hack),
                                   ![".claude/commands"] = commands,
                                   !["hack/linear"] = linear]]

SpecLinkScript == InitLinkScript /\ [][NextLinkScript]_vars

\* a foreign hook is installed at the hook path and there is no backup
InitInstallers ==
    /\ platform \in {"win32", "linux"}
    /\ \E c \in ForeignContents :
          hooks = [InitialHooks(RacedHook) EXCEPT ![HookPath(RacedHook)] = File(c, TRUE)]
    /\ hookLast = NoCall
    /\ foundForeign = {}
    /\ InitDisk
    /\ backing = {}
    /\ InitIdle

SpecInstallers == InitInstallers /\ [][NextInstallers]_vars

SpecRace == InitRace /\ [][NextRace]_vars

\* the three links of a setup pass made in every order
SpecLinkOrder == InitLinkOrder /\ [][NextLinkOrder]_vars

\* the hooks directory after setupGitHooks ran on an empty directory or on
\* one with hooks of another tool
InitScript ==
    /\ platform \in {"win32", "linux"}
    /\ \E pre, post \in {NoFile} \cup { File(c, TRUE) : c \in ForeignContents } :
          hooks = setupGitHooks(
                     [p \in HookPaths(HookNames) |->
                        IF p = HookPath("pre-commit") THEN pre
                        ELSE IF p = HookPath("post-commit") THEN post ELSE NoFile],
                     platform, TRUE).fs
    /\ hookLast = NoCall
    /\ foundForeign = {}
    /\ InitDisk
    /\ backing = {}
    /\ InitIdle

\* the installed hook scripts, run by git for commit after commit
SpecScript == InitScript /\ [][NextScript]_vars

InitPerm ==
    /\ platform \in Platforms
    /\ InitHooks(HookNames)
    /\ InitDisk
    /\ backing = {}
    /\ InitIdle

\* removeReadOnly and makeFileExecutable, with any call of theirs failing;
\* a call that has begun goes on
SpecPerm == InitPerm /\ [][NextPerm]_vars /\ WF_vars(NextPerm)

(***************************************************************************)
(* Properties of the hook installer (checked under SpecHooks)              *)
(***************************************************************************)

HasVersionMarker(content) == MatchVersion(content) # <<>>

OpsOf(ops) == { ops[i].op : i \in DOMAIN ops }

\* the step is a call of installGitHook(hooksDir, n, ...) for the hook n
InstallStepOf(n) ==
    /\ hookLast'.call = "installGitHook"
    /\ hookLast'.hookName = n

\* C1 as stated: for every content with a `Version: <integer>` marker, the first
\* of two successive installs on a missing hook file returns updated:true and the
\* second returns updated:false and makes no write, rename or delete.
C1_IdempotentAnyVersioned ==
    (hookLast.call = "installGitHook" /\ HasVersionMarker(hookLast.content)) =>
        /\ hookLast.streak = 1 => hookLast.updated
        /\ hookLast.streak = 2 =>
              /\ ~hookLast.updated
              /\ hookLast.ops = <<>>

\* C1 amended: the same for every content that carries the product marker
\* 'HumanLayer thoughts' as well as the version marker; after the second call
\* the hook file still holds the content.
C1_IdempotentOwnVersioned ==
    ( /\ hookLast.call = "installGitHook"
      /\ HasVersionMarker(hookLast.content)
      /\ IncludesMarker(hookLast.content) ) =>
        /\ hookLast.streak = 1 => hookLast.updated
        /\ hookLast.streak = 2 =>
              /\ ~hookLast.updated
              /\ hookLast.ops = <<>>
              /\ hooks[HookPath(hookLast.hookName)].content = hookLast.content

C1_Witness ==
    /\ hookLast.call = "installGitHook"
    /\ hookLast.streak = 2
    /\ HasVersionMarker(hookLast.content)
    /\ IncludesMarker(hookLast.content)
    /\ ~hookLast.updated

\* C2: over an existing hook without the product marker, installGitHook first
\* renames the hook to <hookName>.old and then writes: afterwards the backup is
\* the foreign file as it was, the hook path holds the new content, and the
\* result is updated:true.
C2_ForeignBackedUpFirst ==
    [][ \A n \in HookNames :
          LET hp == HookPath(n)
              old == OldHookPath(hp)
          IN  ( /\ InstallStepOf(n)
                /\ ExistsSync(hooks, hp)
                /\ ~IncludesMarker(ReadFileSync(hooks, hp)) ) =>
                  /\ hookLast'.updated
                  /\ Len(hookLast'.ops) >= 2
                  /\ hookLast'.ops[1] = Op("rename", hp)
                  /\ hookLast'.ops[2] = Op("write", hp)
                  /\ hooks'[old] = hooks[hp]
                  /\ ExistsSync(hooks', hp)
                  /\ ReadFileSync(hooks', hp) = hookLast'.content ]_vars

C2_Witness ==
    /\ hookLast.call = "installGitHook"
    /\ hookLast.existed
    /\ hookLast.found \in ForeignContents
    /\ hookLast.updated
    /\ hooks[OldHookPath(HookPath(hookLast.hookName))].content = hookLast.found
    /\ hooks[HookPath(hookLast.hookName)].content = hookLast.content

\* C3: every foreign content that installGitHook found at a hook path is still
\* on disk, at the hook path or in <hookName>.old.
C3_ForeignNeverDestroyed ==
    \A f \in foundForeign :
        LET hp == HookPath(f.name)
        IN  \/ ExistsSync(hooks, hp) /\ ReadFileSync(hooks, hp) = f.content
            \/ /\ ExistsSync(hooks, OldHookPath(hp))
               /\ ReadFileSync(hooks, OldHookPath(hp)) = f.content

\* C4: over an own hook of version N, installing a content of a larger version
\* deletes the hook, writes the new content and returns updated:true; the backup
\* <hookName>.old is neither created nor modified.
C4_StaleOwnReplacedNoBackup ==
    [][ \A n \in HookNames :
          LET hp == HookPath(n)
              existing == ReadFileSync(hooks, hp)
              content == hookLast'.content
          IN  ( /\ InstallStepOf(n)
                /\ ExistsSync(hooks, hp)
                /\ IncludesMarker(existing)
                /\ HasVersionMarker(existing)
                /\ HasVersionMarker(content)
                /\ ParseInt(MatchVersion(content)) > ParseInt(MatchVersion(existing)) ) =>
                  /\ hookLast'.updated
                  /\ Len(hookLast'.ops) >= 2
                  /\ hookLast'.ops[1] = Op("unlink", hp)
                  /\ hookLast'.ops[2] = Op("write", hp)
                  /\ "rename" \notin OpsOf(hookLast'.ops)
                  /\ hooks'[OldHookPath(hp)] = hooks[OldHookPath(hp)]
                  /\ ExistsSync(hooks', hp)
                  /\ ReadFileSync(hooks', hp) = content ]_vars

C4_Witness ==
    /\ hookLast.call = "installGitHook"
    /\ hookLast.existed
    /\ IncludesMarker(hookLast.found)
    /\ HasVersionMarker(hookLast.found)
    /\ HasVersionMarker(hookLast.content)
    /\ ParseInt(MatchVersion(hookLast.content)) = ParseInt(MatchVersion(hookLast.found)) + 1
    /\ hookLast.updated
    /\ hooks[HookPath(hookLast.hookName)].content = hookLast.content

\* C5: over an own hook whose version is greater than or equal to the new
\* content's version, installGitHook returns updated:false and makes no write,
\* rename, delete or chmod: the hook file and <hookName>.old are untouched.
C5_UpToDateUntouched ==
    [][ \A n \in HookNames :
          LET hp == HookPath(n)
              existing == ReadFileSync(hooks, hp)
              content == hookLast'.content
          IN  ( /\ InstallStepOf(n)
                /\ ExistsSync(hooks, hp)
                /\ IncludesMarker(existing)
                /\ HasVersionMarker(existing)
                /\ HasVersionMarker(content)
                /\ ParseInt(MatchVersion(existing)) >= ParseInt(MatchVersion(content)) ) =>
                  /\ ~hookLast'.updated
                  /\ hookLast'.ops = <<>>
                  /\ hooks' = hooks ]_vars

\* a downgrade attempt that left the newer hook in place
C5_Witness ==
    /\ hookLast.call = "installGitHook"
    /\ hookLast.existed
    /\ IncludesMarker(hookLast.found)
    /\ HasVersionMarker(hookLast.found)
    /\ HasVersionMarker(hookLast.content)
    /\ ParseInt(MatchVersion(hookLast.found)) > ParseInt(MatchVersion(hookLast.content))
    /\ ~hookLast.updated
    /\ hooks[HookPath(hookLast.hookName)].content = hookLast.found

\* C6: whenever installGitHook returns updated:true the hook path holds exactly
\* the supplied content; on a missing hook file it always installs and leaves
\* <hookName>.old as it was (it creates none).
C6_UpdatedMeansInstalled ==
    [][ \A n \in HookNames :
          LET hp == HookPath(n)
          IN  InstallStepOf(n) =>
                /\ hookLast'.updated =>
                     /\ ExistsSync(hooks', hp)
                     /\ ReadFileSync(hooks', hp) = hookLast'.content
                /\ ~ExistsSync(hooks, hp) =>
                     /\ hookLast'.updated
                     /\ hooks'[OldHookPath(hp)] = hooks[OldHookPath(hp)] ]_vars

\* a first install into a hooks directory without the hook and without a backup
C6_Witness ==
    /\ hookLast.call = "installGitHook"
    /\ ~hookLast.existed
    /\ hookLast.updated
    /\ hooks[HookPath(hookLast.hookName)].content = hookLast.content
    /\ ~ExistsSync(hooks, OldHookPath(HookPath(hookLast.hookName)))

(***************************************************************************)
(* Properties of the state inspector (checked under SpecSetup)             *)
(***************************************************************************)

\* a link whose target exists: "exists and is a directory link"
IsLiveLink(kind) == kind = "link"

\* the three links of the new structure, for a supplied config
ExpectedLinks(config) == {config.user, "shared", "global"}

\* C7: when <cwd>/thoughts is a directory and thoughts/local exists and is a
\* link, checkExistingSetup returns exists:true, isValid:false,
\* isOldStructure:true, with or without a config and whatever links are missing;
\* the message is neither 'configuration is missing' nor 'symlinks are missing'.
C7_OldStructureWins ==
    ( /\ setupLast.call = "checkExistingSetup"
      /\ thoughts = "dir"
      /\ IsLiveLink(entries["local"]) ) =>
        /\ setupLast.result.exists
        /\ ~setupLast.result.isValid
        /\ setupLast.result.isOldStructure
        /\ setupLast.result.message \notin {MsgNoConfig, MsgBroken}

\* an old-structure tree inspected without a config and without thoughts/shared
C7_Witness ==
    /\ setupLast.call = "checkExistingSetup"
    /\ thoughts = "dir"
    /\ IsLiveLink(entries["local"])
    /\ ~setupLast.config.present
    /\ entries["shared"] = "absent"
    /\ setupLast.result.isOldStructure

\* C8: checkExistingSetup returns exists:true, isValid:true exactly when
\* thoughts is a directory, thoughts/local is not a link, a config is supplied
\* and thoughts/<user>, thoughts/shared, thoughts/global each exist and are
\* links; when one of the three is missing or no link the result is never valid,
\* and it is the 'symlinks are missing or broken' result once the earlier tests
\* (directory, old structure, config) have passed.
C8_ValidIffThreeLinks ==
    setupLast.call = "checkExistingSetup" =>
        LET r == setupLast.result
            config == setupLast.config
            reached == /\ thoughts = "dir"
                       /\ ~IsLiveLink(entries["local"])
                       /\ config.present
        IN  /\ (r.exists /\ r.isValid) <=>
                 (reached /\ \A n \in ExpectedLinks(config) : IsLiveLink(entries[n]))
            /\ (config.present /\ \E n \in ExpectedLinks(config) : ~IsLiveLink(entries[n]))
                 => ~r.isValid
            /\ (reached /\ \E n \in ExpectedLinks(config) : ~IsLiveLink(entries[n]))
                 => r = Status(TRUE, FALSE, FALSE, MsgBroken)

C8_Witness ==
    /\ setupLast.call = "checkExistingSetup"
    /\ setupLast.config = Config("alice")
    /\ \A n \in {"alice", "shared", "global"} : IsLiveLink(entries[n])
    /\ setupLast.result = Status(TRUE, TRUE, FALSE, MsgNone)

\* C9: every call of checkExistingSetup yields exactly one of the six results,
\* chosen in the fixed order absent, not-a-directory, old-structure,
\* missing-config, broken, valid; isValid implies exists and isOldStructure
\* implies not isValid.
C9_OrderedClassifier ==
    setupLast.call = "checkExistingSetup" =>
        LET r == setupLast.result
            config == setupLast.config
            isDir == PathExists(thoughts) /\ thoughts = "dir"
            old == isDir /\ IsLiveLink(entries["local"])
        IN  /\ r \in { Status(FALSE, FALSE, FALSE, MsgNone),
                       Status(TRUE, FALSE, FALSE, MsgNotDirectory),
                       Status(TRUE, FALSE, TRUE, MsgOldStructure),
                       Status(TRUE, FALSE, FALSE, MsgNoConfig),
                       Status(TRUE, FALSE, FALSE, MsgBroken),
                       Status(TRUE, TRUE, FALSE, MsgNone) }
            /\ (r = Status(FALSE, FALSE, FALSE, MsgNone)) <=> ~PathExists(thoughts)
            /\ (r = Status(TRUE, FALSE, FALSE, MsgNotDirectory)) <=>
                 (PathExists(thoughts) /\ ~isDir)
            /\ (r = Status(TRUE, FALSE, TRUE, MsgOldStructure)) <=> old
            /\ (r = Status(TRUE, FALSE, FALSE, MsgNoConfig)) <=>
                 (isDir /\ ~old /\ ~config.present)
            /\ (r \in {Status(TRUE, FALSE, FALSE, MsgBroken), Status(TRUE, TRUE, FALSE, MsgNone)})
                 <=> (isDir /\ ~old /\ config.present)
            /\ r.isValid => r.exists
            /\ r.isOldStructure => ~r.isValid

\* a thoughts path that exists without being a directory, inspected with a config
C9_Witness ==
    /\ setupLast.call = "checkExistingSetup"
    /\ thoughts = "file"
    /\ setupLast.config.present
    /\ setupLast.result = Status(TRUE, FALSE, FALSE, MsgNotDirectory)

(***************************************************************************)
(* Properties of the directory linker (checked under SpecLink)             *)
(***************************************************************************)

\* C10: createDirectoryLink asks symlinkSync for a 'junction' on win32 and for
\* a 'dir' link on every other platform, for the target and link path it was
\* given, whether or not the target exists; a successful call returns
\* success:true with type 'junction' on Windows and 'symlink' elsewhere.
C10_LinkKindMatchesPlatform ==
    linkLast.call = "createDirectoryLink" =>
        /\ Len(linkLast.calls) = 1
        /\ linkLast.calls[1].target = linkLast.target
        /\ linkLast.calls[1].name = linkLast.name
        /\ linkLast.calls[1].type = (IF platform = "win32" THEN "junction" ELSE "dir")
        /\ linkLast.result.success =>
             /\ linkLast.result.type = (IF platform = "win32" THEN "junction" ELSE "symlink")
             /\ entries[linkLast.name] \in {"link", "dangling"}

\* a successful link on macOS to a target that does not exist
C10_Witness ==
    /\ linkLast.call = "createDirectoryLink"
    /\ platform = "darwin"
    /\ linkLast.target \notin backing
    /\ linkLast.result = LinkResult(TRUE, "symlink", "")
    /\ entries[linkLast.name] = "dangling"

\* C11: a failed createDirectoryLink returns success:false with type 'junction'
\* on Windows and 'symlink' elsewhere; its message is the administrator hint
\* exactly when the platform is win32 and the text of what symlinkSync threw
\* contains 'EPERM', and is that text verbatim otherwise (an EPERM on Unix and
\* a thrown string included).
C11_FailureResult ==
    (linkLast.call = "createDirectoryLink" /\ linkLast.thrown.thrown) =>
        LET r == linkLast.result
            hint == platform = "win32" /\ IncludesEPERM(linkLast.thrown.text)
        IN  /\ ~r.success
            /\ r.type = (IF platform = "win32" THEN "junction" ELSE "symlink")
            /\ (r.message = MsgAdmin) <=> hint
            /\ ~hint => r.message = linkLast.thrown.text

\* an EPERM failure on Linux, reported with the text of the error
C11_Witness ==
    /\ linkLast.call = "createDirectoryLink"
    /\ platform = "linux"
    /\ linkLast.thrown = ErrEPERM
    /\ linkLast.result = LinkResult(FALSE, "symlink", ErrEPERM.text)

\* C12: a createDirectoryLink call makes one symlinkSync attempt and changes
\* nothing else: a failed call leaves every entry as it was, a successful one
\* changes the entry at the link path only, and neither the thoughts directory
\* (the parent of the link path) nor the backing directories are created.
C12_OneAttemptNoOtherChange ==
    [][linkLast'.call = "createDirectoryLink" =>
         /\ Len(linkLast'.calls) = 1
         /\ thoughts' = thoughts
         /\ backing' = backing
         /\ \A n \in EntryNames : n # linkLast'.name => entries'[n] = entries[n]
         /\ ~linkLast'.result.success => entries' = entries]_vars

\* a call that failed because the parent directory of the link path is missing,
\* for a target that is missing too
C12_Witness ==
    /\ linkLast.call = "createDirectoryLink"
    /\ thoughts = "absent"
    /\ linkLast.target \notin backing
    /\ linkLast.thrown = ErrENOENT
    /\ ~linkLast.result.success
    /\ Len(linkLast.calls) = 1

(***************************************************************************)
(* Properties of thoughtsInitCommand (checked under SpecInit)              *)
(***************************************************************************)

\* the run of the process that SpecInit follows
TheRun == run["p1"]

\* the link names of a run in the order of the code
LinkOrder(config) == <<config.user, "shared", "global">>

\* C13: a run attempts the user, shared and global link once each, in that
\* order, and goes on to the next link when one has failed; after the three
\* attempts it exits with code 1 at the link check exactly when one of them
\* failed, and the links that succeeded are still on disk then.
C13_AllLinksAttempted ==
    LET r == TheRun
        n == Len(r.links)
        failed == \E i \in 1 .. n : ~r.links[i].result.success
    IN  n > 0 =>
          /\ n <= Len(LinkPcs)
          /\ \A i \in 1 .. n : r.links[i].name = LinkOrder(r.config)[i]
          /\ n < Len(LinkPcs) => r.pc = LinkPcs[n + 1]
          /\ n = Len(LinkPcs) =>
                /\ (r.pc = "exited" /\ r.at = "links" /\ r.exitCode = 1) <=> failed
                /\ failed =>
                      \A i \in 1 .. n :
                         r.links[i].result.success =>
                            IsSymbolicLink(entries[r.links[i].name])

\* the user link failed, the shared and the global link were made all the same
C13_Witness ==
    /\ TheRun.pc = "exited" /\ TheRun.at = "links" /\ TheRun.exitCode = 1
    /\ Len(TheRun.links) = Len(LinkPcs)
    /\ ~TheRun.links[1].result.success
    /\ TheRun.links[2].result.success /\ TheRun.links[3].result.success
    /\ entries[TheRun.config.user] = "absent"
    /\ IsLiveLink(entries["shared"]) /\ IsLiveLink(entries["global"])

\* C14: when the previous run ended after its link attempts with one of the
\* three links missing from thoughts/, checkExistingSetup of the next run finds the
\* directory and does not report it valid; when that run goes on (the fix is
\* accepted or --force is given) and passes the link check, thoughts/<user>,
\* thoughts/shared and thoughts/global are all on disk.
C14_PartialSetupRepaired ==
    LET r == TheRun
    IN  r.afterPartial =>
          /\ (r.pc # "configured" /\ r.at \notin {"git", "profile"}) =>
                (r.setupStatus.exists /\ ~r.setupStatus.isValid)
          /\ (Len(r.links) = Len(LinkPcs) /\ r.at # "links") =>
                \A n \in ExpectedLinks(r.config) : IsLiveLink(entries[n])

\* a run after a partial setup that found it broken and completed
C14_Witness ==
    /\ TheRun.afterPartial
    /\ TheRun.pc = "exited" /\ TheRun.at = "done" /\ TheRun.exitCode = 0
    /\ TheRun.setupStatus = Status(TRUE, FALSE, FALSE, MsgBroken)
    /\ TheRun.config.user = "alice"
    /\ \A n \in {"alice", "shared", "global"} : IsLiveLink(entries[n])

\* a step that writes no repository mapping, leaves thoughts/ as it is and
\* installs no hook
NoSetupWrite ==
    /\ configFile'.repoMappings = configFile.repoMappings
    /\ thoughts' = thoughts
    /\ entries' = entries
    /\ claudeMd' = claudeMd
    /\ hooks' = hooks

\* C15: a run whose --profile is not a key of config.profiles exits with code
\* 1 at the profile validation; no step of the run up to that exit writes a
\* repository mapping, changes thoughts/ or installs a hook.
C15_UnknownProfileRejected ==
    [][LET r == TheRun
           unknown == r.options.profile # "" /\ r.options.profile \notin r.config.profiles
       IN  /\ r.pc \in {"idle", "exited", "loaded"} => NoSetupWrite
           /\ (r.pc = "configured" /\ unknown) =>
                 /\ NoSetupWrite
                 /\ run'["p1"].pc = "exited"
                 /\ run'["p1"].exitCode = 1
                 /\ run'["p1"].at = "profile"]_vars

\* the profile 'nope' given with a config that holds the profile 'work' only
C15_Witness ==
    /\ TheRun.pc = "exited" /\ TheRun.at = "profile" /\ TheRun.exitCode = 1
    /\ configFile.present /\ configFile.profiles = {"work"}
    /\ configFile.repoMappings[CurrentRepo] = NoMapping
    /\ thoughts = "absent"
    /\ \A n \in HookNames : ~ExistsSync(hooks, HookPath(n))

\* C16: a run with --directory in a repository without a mapping that reaches
\* the choice of the directory (its profile is known, no prompt ended it
\* before) exits with code 1 when the sanitized name is no directory under the
\* reposDir of the backing repository; no step of the run up to that exit
\* writes a repository mapping, changes thoughts/ or installs a hook.
C16_UnknownDirectoryRejected ==
    [][LET r == TheRun
           key == TempProfileKey(r.config, r.options.profile)
           missing == /\ r.options.directory # NoName
                      /\ IsFalsy(r.config.repoMappings[CurrentRepo])
                      /\ sanitizeDirectoryName(r.options.directory)
                            \notin thoughtsRepo[key].dirs
       IN  (/\ r.pc = "configured"
            /\ missing
            /\ run'["p1"].at \notin {"profile", "cancelled", "recreate"}) =>
               /\ NoSetupWrite
               /\ run'["p1"].pc = "exited"
               /\ run'["p1"].exitCode = 1
               /\ run'["p1"].at = "directory"]_vars

\* --directory 'b ' where only the directory 'a' exists
C16_Witness ==
    /\ TheRun.pc = "exited" /\ TheRun.at = "directory" /\ TheRun.exitCode = 1
    /\ configFile.present
    /\ configFile.repoMappings[CurrentRepo] = NoMapping
    /\ thoughtsRepo[""].dirs = {<<"a">>}
    /\ thoughts = "absent"
    /\ \A n \in HookNames : ~ExistsSync(hooks, HookPath(n))

\* the backing repository that holds the directory of a saved mapping
MappingKey(config, repo) == resolveProfileForRepo(config, repo)

\* C17: in every state, each repository mapping of the persisted config names
\* a directory that exists under the reposDir of the backing repository of the
\* mapping's profile.
C17_MappingHasDirectory ==
    \A repo \in Repos :
       LET m == configFile.repoMappings[repo]
       IN  (configFile.present /\ ~IsFalsy(m)) =>
              m.repo \in thoughtsRepo[MappingKey(configFile, repo)].dirs

C18_LinkOrderInsensitive ==
    LET r == run["p1"]
        user == r.config.user
        faultOf == [w \in {"linkUser", "linkShared", "linkGlobal"} |->
                      LET i == CHOOSE j \in 1 .. Len(r.links) : r.links[j].which = w
                      IN  r.links[i].fault]
        coded == LinksInOrder(platform, thoughts, [n \in EntryNames |-> "absent"],
                              backing, user, LinkPcs, faultOf)
    IN  (r.pc = "linkAny" /\ Len(r.links) = Len(LinkPcs)) =>
          /\ Cardinality({LinkNameOf(w, user) : w \in {"linkUser", "linkShared", "linkGlobal"}})
                = Len(LinkPcs)
          /\ entries = coded.ent
          /\ {[which |-> r.links[i].which, result |-> r.links[i].result] :
                 i \in 1 .. Len(r.links)} = coded.results

(***************************************************************************)
(* Properties of concurrent runs (checked under SpecRace)                  *)
(***************************************************************************)

\* C20: the save of a run replaces the persisted config by the document the
\* run loaded at its start plus its own mapping, and is not refused; when the
\* other process has saved its mapping since this run loaded, that mapping is
\* absent from the persisted config afterwards, and neither run is stopped.
C20_LastWriterWins ==
    [][\A p \in Procs :
         (run[p].pc = "save" /\ run'[p].pc # "save") =>
            /\ configFile' = run[p].config
            /\ run'[p].pc = "structure"
            /\ \A q \in Procs \ {p} :
                  /\ run'[q].pc = run[q].pc
                  /\ (/\ run[p].savedSince
                      /\ run[q].added
                      /\ run[q].pc \notin {"loaded", "configured", "save"}) =>
                        IsFalsy(configFile'.repoMappings[RepoOf(q)])]_vars

\* both runs completed with code 0; p1 saved first and made its links, and
\* the persisted config holds the mapping of p2 only
C20_Witness ==
    /\ \A p \in Procs :
          run[p].pc = "exited" /\ run[p].at = "done" /\ run[p].exitCode = 0 /\ run[p].added
    /\ run["p2"].savedSince
    /\ ~run["p1"].savedSince
    /\ IsFalsy(configFile.repoMappings[RepoOf("p1")])
    /\ ~IsFalsy(configFile.repoMappings[RepoOf("p2")])
    /\ IsLiveLink(entries["shared"]) /\ IsLiveLink(entries["global"])

(***************************************************************************)
(* The generated hook scripts                                              *)
(***************************************************************************)

\* C21: whenever the staged file list holds a path that begins with
\* thoughts/, the pre-commit hook unstages thoughts/ and exits non-zero: once
\* the check has seen such a path, the script has exited with a non-zero code
\* and no path under thoughts/ is staged any more.
C21_ThoughtsCommitRefused ==
    (script.hookName = "pre-commit" /\ script.sawThoughts)
        => /\ script.pc = "exited"
           /\ script.exitCode # 0
           /\ \A path \in script.index : ~StartsWithThoughts(path)

\* C22: the post-commit hook never spawns the sync process in a worktree
\* checkout (.git is a file) and exits 0 there; in a normal checkout it spawns
\* exactly one detached `humanlayer thoughts sync` call whose message is
\* 'Auto-sync with commit: ' and the latest commit message without the white
\* space around it, and it never waits for that process.
C22_SyncSpawnedOnceDetached ==
    script.hookName = "post-commit" =>
        /\ script.pc # "waiting"
        /\ script.dotGit = "file" =>
              /\ script.spawned = <<>>
              /\ script.sync = "none"
              /\ script.pc \in {"worktree", "exited"}
              /\ script.pc = "exited" => script.exitCode = 0
        /\ (script.dotGit = "dir" /\ script.pc \notin {"worktree", "sync"}) =>
              /\ Len(script.spawned) = 1
              /\ LET call == script.spawned[1]
                     tag == call.args[Len(call.args)]
                     msg == Tail(tag)
                 IN  /\ call.command = "humanlayer"
                     /\ SubSeq(call.args, 1, 3) = <<"thoughts", "sync", "--message">>
                     /\ call.detached /\ call.stdio = "ignore"
                     /\ Head(tag) = "Auto-sync with commit: "
                     /\ msg # <<>>
                     /\ Head(msg) \notin WhiteSpace
                     /\ msg[Len(msg)] \notin WhiteSpace
                     /\ \E i \in DOMAIN script.log :
                           /\ SubSeq(script.log, i, i + Len(msg) - 1) = msg
                           /\ \A k \in DOMAIN script.log :
                                 (k < i \/ k >= i + Len(msg)) => script.log[k] \in WhiteSpace
        /\ script.pc \in {"worktree", "sync"} => script.spawned = <<>>

\* the hook of a normal checkout has ended while the sync process it spawned
\* is still running
C22_Witness ==
    /\ script.hookName = "post-commit"
    /\ script.dotGit = "dir"
    /\ script.pc = "exited"
    /\ script.exitCode = 0
    /\ Len(script.spawned) = 1
    /\ script.sync = "running"

\* C23: each generated hook calls the preserved <hookName>.old, when that
\* file exists, on every run in which the hook itself does not refuse the
\* commit, with the arguments it was given, and exits with the old hook's
\* non-zero status when the old hook fails: a run that is over and was not
\* ended by the hook's own refusal has called the old hook once.
C23_OldHookCalled ==
    LET exists == ExistsSync(hooks, OldHookPath(HookPath(script.hookName)))
        over == script.pc \in {"end", "waiting", "exited"}
        refused == /\ script.hookName = "pre-commit"
                   /\ script.sawThoughts
                   /\ script.pc = "exited"
                   /\ script.oldCalls = <<>>
    IN  (script.hookName \in HookNames /\ exists /\ over /\ ~refused) =>
            /\ script.oldCalls = <<script.argv>>
            /\ script.oldFailed =>
                  /\ script.pc = "exited"
                  /\ script.exitCode # 0
                  /\ script.oldStatus # 0 => script.exitCode = script.oldStatus

(***************************************************************************)
(* The generated hooks read back by the installer                          *)
(***************************************************************************)

\* the hook generated for v as installGitHook reads it back: it holds the
\* product marker and the line '// Version: v', it is found up to date against
\* itself, and a hook of the next version replaces it without a backup
ReadBackAsVersion(hookName, v) ==
    LET content == generateHookOf(hookName, v)
        fs == [hooks EXCEPT ![HookPath(hookName)] = File(content, TRUE)]
        next == installGitHook(fs, platform, hookName,
                               generateHookOf(hookName, v + 1), TRUE)
    IN  /\ IncludesMarker(content)
        /\ \E i \in DOMAIN content :
              content[i] \in { VersionLine("// Version: ", ToDigits(v)),
                               VersionLine("// Version: -", ToDigits(0 - v)) }
        /\ MatchVersion(content) # <<>>
        /\ ParseInt(MatchVersion(content)) = v
        /\ ~needsUpdate(fs, HookPath(hookName), content)
        /\ next.updated
        /\ \A i \in DOMAIN next.ops : next.ops[i].op # "rename"

\* C24 (as stated): for every integer version v the two generated hooks hold
\* the product marker and the line '// Version: v', and installGitHook reads
\* an installed generated hook back as its own hook of version v.
C24_AnyIntegerVersion ==
    \A n \in { h \in HookNames : HookPath(h) \in DOMAIN hooks }, v \in SignedVersions :
        /\ ReadBackAsVersion(n, v)
        /\ (hookLast.call = "installGitHook" /\ hookLast.existed
               /\ hookLast.found = generateHookOf(n, v))
             => ~(\E i \in DOMAIN hookLast.ops : hookLast.ops[i].op = "rename")

\* C24 (amended): the same for every version v >= 0, the versions that are
\* printed as a run of decimal digits; and a generated hook of any integer
\* version that installGitHook finds at the hook path is never backed up as a
\* foreign hook.
C24_NaturalVersion ==
    \A n \in { h \in HookNames : HookPath(h) \in DOMAIN hooks }, v \in SignedVersions :
        /\ v >= 0 => ReadBackAsVersion(n, v)
        /\ (hookLast.call = "installGitHook" /\ hookLast.existed
               /\ hookLast.found = generateHookOf(n, v))
             => ~(\E i \in DOMAIN hookLast.ops : hookLast.ops[i].op = "rename")

\* a generated hook of a version of two digits was installed, and then found
\* up to date by a second call with the same content
C24_Witness ==
    \E n \in { h \in HookNames : HookPath(h) \in DOMAIN hooks } :
        /\ hookLast.call = "installGitHook"
        /\ hookLast.existed
        /\ hookLast.content = generateHookOf(n, MaxVersion)
        /\ hookLast.found = hookLast.content
        /\ ~hookLast.updated
        /\ ReadFileSync(hooks, HookPath(n)) = generateHookOf(n, MaxVersion)

(***************************************************************************)
(* setupGitHooks                                                           *)
(***************************************************************************)

\* the hook file of `hookName` is a generated hook of version `version`
IsOwnHookOfVersion(fs, hookName, version) ==
    /\ ExistsSync(fs, HookPath(hookName))
    /\ ReadFileSync(fs, HookPath(hookName)) = generateHook(hookName, ToDigits(version))

\* C25: a pass of setupGitHooks that returns has called installGitHook for
\* pre-commit and then for post-commit with the hooks of HOOK_VERSION, and its
\* `updated` is exactly the names for which that call returned updated: true,
\* which are then hooks of HOOK_VERSION on disk; over an empty hooks
\* directory it returns both names, and a pass that follows a pass, with
\* nothing changed in between, returns an empty list and writes nothing.
C25_SetupPass ==
    [][ (hookLast'.call = "setupGitHooks" /\ ~hookLast'.threw) =>
          LET pre == installGitHook(hooks, platform, "pre-commit",
                                    generatePreCommitHook(ToDigits(HOOK_VERSION)), TRUE)
              post == installGitHook(pre.fs, platform, "post-commit",
                                     generatePostCommitHook(ToDigits(HOOK_VERSION)), TRUE)
              returned == hookLast'.updated
              names == { returned[i] : i \in DOMAIN returned }
          IN  /\ hookLast'.calls = <<"pre-commit", "post-commit">>
              /\ Cardinality(names) = Len(returned)
              /\ names = { n \in HookNames :
                             (IF n = "pre-commit" THEN pre ELSE post).updated }
              /\ \A n \in names : IsOwnHookOfVersion(hooks', n, HOOK_VERSION)
              /\ \A n \in HookNames :
                    /\ ExistsSync(hooks', HookPath(n))
                    /\ IncludesMarker(ReadFileSync(hooks', HookPath(n)))
                    /\ n \notin names => hooks'[HookPath(n)] = hooks[HookPath(n)]
              /\ (\A path \in DOMAIN hooks : ~ExistsSync(hooks, path))
                    => returned = <<"pre-commit", "post-commit">>
              /\ (hookLast.call = "setupGitHooks" /\ ~hookLast.threw)
                    => /\ returned = <<>>
                       /\ hookLast'.ops = <<>>
                       /\ hooks' = hooks
      ]_vars

\* a second pass right after a first one over an empty directory: it found
\* both hooks of HOOK_VERSION and returned an empty list
C25_Witness ==
    /\ hookLast.call = "setupGitHooks"
    /\ ~hookLast.threw
    /\ hookLast.streak = 2
    /\ hookLast.updated = <<>>
    /\ \A n \in HookNames :
          /\ IsOwnHookOfVersion(hooks, n, HOOK_VERSION)
          /\ ~ExistsSync(hooks, OldHookPath(HookPath(n)))

\* C26: each setup pass of thoughtsInitCommand triggers the hook installer
\* once, whatever the outcome of the directory-link step: a run that has made
\* its three link attempts, and in which no later call threw, has ended with
\* one installGitHook call for pre-commit and one for post-commit.
C26_HooksOncePerPass ==
    (/\ TheRun.pc = "exited"
     /\ Len(TheRun.links) = Len(LinkPcs)
     /\ TheRun.fault \in {"", "none"})
        => TheRun.hookCalls = <<"pre-commit", "post-commit">>

(***************************************************************************)
(* removeReadOnly and makeFileExecutable                                   *)
(***************************************************************************)

\* C27: removeReadOnly and makeFileExecutable return normally on every
\* platform, whichever call fails (the chmod subprocess, existsSync, a
\* directory read, the chmod of an entry): no exception reaches the caller,
\* and off Windows each of the two has returned after its one chmod.
C27_NeverRaises ==
    /\ walk.pc \in {"idle", "enter", "loop", "returned"}
    /\ (walk.call # "none" /\ ~isWindows(platform)) => walk.pc = "returned"
    /\ walk.call = "makeFileExecutable" => walk.pc = "returned"

\* a walk on Windows has returned after the chmod of an entry, or the read
\* of a directory, failed
C27_Witness ==
    /\ isWindows(platform)
    /\ walk.call = "removeReadOnly"
    /\ walk.pc = "returned"
    /\ "d" \in walk.failed
    /\ "x" \in walk.attempted

\* C28: on Windows removeReadOnly walks the whole tree and calls chmod on
\* every entry; a failure on an entry (its chmod, or the read of its
\* directory) is swallowed, and the siblings of that entry and their subtrees
\* are still visited: when the walk has returned, every entry below which no
\* failure cut the walk off (none of the directories above it failed) has
\* been attempted.  Every walk that has begun returns.
C28_WalkVisitsAll ==
    /\ [](  (/\ isWindows(platform)
             /\ walk.call = "removeReadOnly"
             /\ walk.pc = "returned"
             /\ ~walk.rootFailed)
            => \A entry \in TreeEntries :
                  (AncestorsOf(entry) \cap walk.failed = {})
                      => entry \in walk.attempted )
    /\ (walk.pc \in {"enter", "loop"}) ~> (walk.pc = "returned")

\* the chmod of the directory a failed: its siblings b and c and the entry
\* below c were visited all the same, the entries below a were not
C28_Witness ==
    /\ isWindows(platform)
    /\ walk.call = "removeReadOnly"
    /\ walk.pc = "returned"
    /\ walk.failed = {"a"}
    /\ walk.attempted = {"a", "b", "c", "z"}

(***************************************************************************)
(* installGitHook: the executable bit                                      *)
(***************************************************************************)

\* C29: a call of installGitHook that writes the hook calls chmod on it, once
\* and as its last step, on every platform but Windows, where it calls none;
\* whether the chmod fails or not, the call returns updated: true and the
\* hook file holds the new content.
C29_ChmodBestEffort ==
    [][ (hookLast'.call = "installGitHook" /\ hookLast'.updated) =>
          LET path == HookPath(hookLast'.hookName)
              ops == hookLast'.ops
              chmods == { i \in DOMAIN ops : ops[i].op = "chmod" }
          IN  /\ ExistsSync(hooks', path)
              /\ ReadFileSync(hooks', path) = hookLast'.content
              /\ platform = "win32" => (chmods = {} /\ ~hooks'[path].exec)
              /\ platform # "win32" =>
                    /\ chmods = {Len(ops)}
                    /\ ops[Len(ops)] = Op("chmod", path)
      ]_vars

\* off Windows the chmod failed: the call returned updated: true and the new
\* content is on disk, without the executable bit
C29_Witness ==
    /\ platform # "win32"
    /\ hookLast.call = "installGitHook"
    /\ hookLast.updated
    /\ hookLast.existed
    /\ ReadFileSync(hooks, HookPath(hookLast.hookName)) = hookLast.content
    /\ ~hooks[HookPath(hookLast.hookName)].exec

(***************************************************************************)
(* thoughtsInitCommand: the best-effort pull                               *)
(***************************************************************************)

\* C30: a failed `git pull --rebase` in the backing repository, or a backing
\* repository without a remote, never aborts thoughtsInitCommand: a run in
\* which the pull failed or was skipped, and in which no other call threw,
\* has written thoughts/CLAUDE.md, has installed the two hooks and has
\* ended with the exit code 0.
C30_PullFailureNotFatal ==
    (/\ TheRun.pc = "exited"
     /\ TheRun.pull \in {"failed", "noRemote"}
     /\ TheRun.fault = "none")
        => /\ TheRun.exitCode = 0
           /\ TheRun.at = "done"
           /\ claudeMd.exists
           /\ TheRun.hookCalls = <<"pre-commit", "post-commit">>
           /\ \A n \in HookNames :
                 /\ ExistsSync(hooks, HookPath(n))
                 /\ IncludesMarker(ReadFileSync(hooks, HookPath(n)))

\* a first run whose pull failed: it ended with 0, CLAUDE.md and the hooks
\* of HOOK_VERSION are there
C30_Witness ==
    /\ TheRun.pc = "exited"
    /\ TheRun.pull = "failed"
    /\ TheRun.exitCode = 0
    /\ claudeMd.exists
    /\ \A n \in HookNames : IsOwnHookOfVersion(hooks, n, HOOK_VERSION)

(***************************************************************************)
(* thoughtsInitCommand: the gate of the state inspector                    *)
(***************************************************************************)

\* C31: when checkExistingSetup reports a valid setup, --force is not given
\* and the answer to the reconfigure prompt is not 'y' (in either case), the
\* command returns there with the code 0, and the run has changed neither
\* thoughts/ and its links, nor the persisted mappings, nor the git hooks:
\* no step up to the check changes any of them, and the step that returns
\* changes nothing on disk.
C31_ValidSetupUntouched ==
    [][ LET before == run["p1"]
            after == run'["p1"]
            declined == /\ before.pc = "configured"
                        /\ after.pc # "configured"
                        /\ after.setupStatus.exists
                        /\ after.setupStatus.isValid
                        /\ after.declined
        IN  /\ declined =>
                  /\ after.pc = "exited"
                  /\ after.at = "cancelled"
                  /\ after.exitCode = 0
                  /\ UNCHANGED <<thoughts, entries, backing, hooks, claudeMd,
                                 configFile, thoughtsRepo>>
            /\ before.pc \in {"idle", "exited", "loaded"} =>
                  /\ UNCHANGED <<thoughts, entries, hooks, claudeMd>>
                  /\ (configFile.present /\ configFile'.present)
                        => configFile'.repoMappings = configFile.repoMappings
                  /\ configFile'.present
                        => (configFile.present
                              \/ \A repo \in Repos : IsFalsy(configFile'.repoMappings[repo]))
      ]_vars

\* a run found the three links of an earlier run, asked, and returned
C31_Witness ==
    /\ TheRun.pc = "exited"
    /\ TheRun.at = "cancelled"
    /\ TheRun.setupStatus.isValid
    /\ TheRun.declined
    /\ ~IsFalsy(configFile.repoMappings[CurrentRepo])
    /\ \A n \in ExpectedLinks(TheRun.config) : IsLiveLink(entries[n])

(***************************************************************************)
(* hookNeedsVersionUpdate: the comparison of versions                      *)
(***************************************************************************)

\* what a call of installGitHook with the generated hook of `newVersion` does
\* to the hooks directory when the generated hook of `oldVersion` is installed
InstallOver(hookName, oldVersion, newVersion) ==
    installGitHook([hooks EXCEPT ![HookPath(hookName)] =
                       File(generateHook(hookName, ToDigits(oldVersion)), TRUE)],
                   platform, hookName, generateHook(hookName, ToDigits(newVersion)),
                   TRUE)

\* C32: hook versions are compared as integers: over an installed generated
\* hook of version 9 the hook of version 10 is installed, over one of version
\* 10 the hook of version 9 is not; and every call that finds a product-marked
\* hook with a version, and is given a content with a version, updates
\* exactly when the installed number is less than the new one.
C32_VersionsAsIntegers ==
    /\ \A n \in { h \in HookNames : HookPath(h) \in DOMAIN hooks } :
          /\ InstallOver(n, 9, 10).updated
          /\ ~InstallOver(n, 10, 9).updated
          /\ \A old \in VersionNumbers, new \in VersionNumbers :
                InstallOver(n, old, new).updated <=> old < new
    /\ (/\ hookLast.call = "installGitHook"
        /\ hookLast.existed
        /\ IncludesMarker(hookLast.found)
        /\ MatchVersion(hookLast.found) # <<>>
        /\ MatchVersion(hookLast.content) # <<>>)
          => (hookLast.updated <=>
                ParseInt(MatchVersion(hookLast.found))
                    < ParseInt(MatchVersion(hookLast.content)))

\* the hook of version 10 was installed over the installed hook of version 9
C32_Witness ==
    \E n \in { h \in HookNames : HookPath(h) \in DOMAIN hooks } :
        /\ hookLast.call = "installGitHook"
        /\ hookLast.hookName = n
        /\ hookLast.found = generateHook(n, ToDigits(9))
        /\ hookLast.content = generateHook(n, ToDigits(10))
        /\ hookLast.updated
        /\ ReadFileSync(hooks, HookPath(n)) = generateHook(n, ToDigits(10))

\* C33: when the installed product-marked hook, or the new content, has no
\* parseable version line, installGitHook takes the hook to need an update:
\* it deletes the own hook and writes the content, without a rename to .old,
\* and a call repeated with a product-marked content of that kind updates
\* again, so that such installs never reach updated: false.
C33_NoVersionAlwaysUpdates ==
    \A n \in { h \in HookNames : HookPath(h) \in DOMAIN hooks } :
      \A content \in InstallContents(n) :
        LET path == HookPath(n)
            first == installGitHook(hooks, platform, n, content, TRUE)
            second == installGitHook(first.fs, platform, n, content, TRUE)
            own == ExistsSync(hooks, path) /\ IncludesMarker(ReadFileSync(hooks, path))
            unversioned == \/ MatchVersion(ReadFileSync(hooks, path)) = <<>>
                           \/ MatchVersion(content) = <<>>
        IN  (own /\ unversioned) =>
              /\ first.updated
              /\ Len(first.ops) >= 2
              /\ first.ops[1] = Op("unlink", path)
              /\ first.ops[2] = Op("write", path)
              /\ \A i \in DOMAIN first.ops : first.ops[i].op # "rename"
              /\ first.fs[OldHookPath(path)] = hooks[OldHookPath(path)]
              /\ ReadFileSync(first.fs, path) = content
              /\ (IncludesMarker(content) /\ MatchVersion(content) = <<>>) =>
                    /\ second.updated
                    /\ \A i \in DOMAIN second.ops : second.ops[i].op # "rename"

\* a product-marked content without a version was installed over itself:
\* the second call deleted and rewrote it
C33_Witness ==
    /\ hookLast.call = "installGitHook"
    /\ hookLast.existed
    /\ hookLast.content = MarkedUnversioned
    /\ hookLast.found = MarkedUnversioned
    /\ hookLast.updated
    /\ hookLast.ops[1].op = "unlink"

\* C34: a failure of `git diff --cached --name-only` in the pre-commit hook
\* does not by itself reject the commit: the hook ends with a status other
\* than 0 only when its own check found a staged path under thoughts/ or
\* pre-commit.old failed, and with 0 otherwise; after a failed diff the old
\* hook is still called and decides alone.
C34_DiffFailureNotFatal ==
    (script.hookName = "pre-commit" /\ script.pc = "exited") =>
        /\ script.exitCode # 0 => (script.sawThoughts \/ script.oldFailed)
        /\ (~script.sawThoughts /\ ~script.oldFailed) => script.exitCode = 0
        /\ script.diffFailed =>
              /\ ~script.sawThoughts
              /\ script.exitCode # 0 <=> script.oldFailed
              /\ ExistsSync(hooks, OldHookPath(HookPath("pre-commit")))
                    => Len(script.oldCalls) = 1

\* the diff failed with paths under thoughts/ staged, and the hook ended with 0
C34_Witness ==
    /\ script.hookName = "pre-commit"
    /\ script.pc = "exited"
    /\ script.diffFailed
    /\ \E line \in StagedLines(script.index) : StartsWithThoughts(line)
    /\ script.exitCode = 0

\* C36: after a setup pass of thoughtsInitCommand that made its three links,
\* checkExistingSetup with the config of the pass reports a valid setup, for
\* every user name of the config, the names local and shared included.
C36_ValidAfterInit ==
    LET r == run["p1"]
    IN  (/\ r.pc = "exited"
         /\ r.at = "done"
         /\ Len(r.links) = Len(LinkPcs)
         /\ \A i \in 1 .. Len(r.links) : r.links[i].result.success)
          => checkExistingSetup(thoughts, entries, r.config).isValid

\* C37: within one run the profile that tempProfileConfig is built from, with
\* which the backing repository is checked and its directories are listed,
\* is the profile that resolveProfileForRepo gives for the mapping of the
\* repository, with which the directories and the link targets are made, in
\* a first setup and in a run for a repository that is mapped already.
C37_OneProfilePerRun ==
    [][ (/\ run["p1"].pc = "configured"
         /\ run["p1"]'.pc \in {"save", "structure"})
          => TempProfileKey(run["p1"].config, run["p1"].options.profile)
                = resolveProfileForRepo(run["p1"]'.config, CurrentRepo) ]_vars

\* C38: in a run for a repository that is mapped already, the directory made
\* in the backing repository has the directory name of the mapping: the bare
\* string, or the repo field of a {repo, profile} pair.
C38_MappedDirectoryName ==
    [][ (/\ run["p1"].pc = "structure"
         /\ ~run["p1"].added
         /\ run["p1"]'.pc = "thoughtsDir")
          => LET config == run["p1"].config
                 key == resolveProfileForRepo(config, CurrentRepo)
             IN  thoughtsRepo' =
                   createThoughtsDirectoryStructure(thoughtsRepo, key,
                       config.repoMappings[CurrentRepo].repo) ]_vars

(***************************************************************************)
(* thoughts/CLAUDE.md (checked under SpecClaudeMd)                         *)
(***************************************************************************)

\* C39: the thoughts/CLAUDE.md that a setup pass writes names as the target
\* of global/ the path that the global link of the pass points to:
\* thoughtsRepo/globalDir of the resolved profile, whatever the name of the
\* global directory is.
C39_ClaudeMdNamesGlobalTarget ==
    (TheRun.pc = "exited" /\ TheRun.at = "done") =>
        /\ claudeMd.exists
        /\ expandPath(claudeMd.globalPath) =
              getGlobalThoughtsPath(
                  ProfileConfig(TheRun.config,
                                resolveProfileForRepo(TheRun.config, CurrentRepo)))

(***************************************************************************)
(* hack/link_to_repo.sh (checked under SpecLinkScript)                     *)
(***************************************************************************)

\* the links of the script that a run made
LinksMadeSince(before, after) ==
    { t \in AllTargets : before[t].kind = "absent" /\ after[t] = SymLink(t) }

\* C40: link_file replaces and changes no path that is there, and a target
\* that is there is skipped: a run of the script that follows a run with the
\* same arguments that ended with 0 ends with 0 and leaves the target
\* repository as that run left it.
C40_SecondRunSkipsAll ==
    /\ \A t \in AllTargets \cup LinkDirs :
          linker.before[t].kind # "absent" => linker.fs[t] = linker.before[t]
    /\ (/\ linker.pc = "exited"
        /\ linker.prev.ran
        /\ linker.prev.exitCode = 0
        /\ linker.prev.args = linker.args)
          => /\ linker.exitCode = 0
             /\ linker.fs = linker.before

(***************************************************************************)
(* installGitHook under concurrent calls (checked under SpecInstallers)    *)
(***************************************************************************)

\* C35: when two calls of installGitHook for one hook path run at the same
\* time over a foreign hook, every interleaving of their system calls ends
\* with the foreign content in <hookName>.old and the generated content at
\* the hook path, and <hookName>.old never holds a product-marked hook.
C35_ConcurrentInstallKeepsBackup ==
    LET hookPath == HookPath(RacedHook)
        oldHookPath == OldHookPath(hookPath)
    IN  /\ ExistsSync(hooks, oldHookPath)
            => ~IncludesMarker(ReadFileSync(hooks, oldHookPath))
        /\ (\A p \in Procs : installers[p].pc \in {"returned", "threw"})
            => /\ ExistsSync(hooks, hookPath)
               /\ ReadFileSync(hooks, hookPath) = RacedContent
               /\ ExistsSync(hooks, oldHookPath)
               /\ ReadFileSync(hooks, oldHookPath) \in ForeignContents

====
